---- MODULE Spec2Model ----
(***************************************************************************)
(* Model of the repository discovery and validation pipeline of            *)
(* LLM_repo_valid: main.py (process_all_papers, process_single_paper),     *)
(* pdf_extractor.py, github_search.py, repo_validator.py and utils.py.     *)
(*                                                                         *)
(* Conventions.  Python None is the empty tuple <<>>; an optional value x  *)
(* is <<x>>; in a field that holds text None is the string "None", and     *)
(* processed_at is FALSE for None, TRUE for a timestamp.  A Python dict is *)
(* a function over its keys, so that a missing key is visible (KeyError,   *)
(* .get defaults, {**a, **b}).  Scores are hundredths (0.1 is 10).  A URL  *)
(* string is the record of what urlparse sees in it (host labels, path     *)
(* segments) and of the suffix tokens normalize_url works on ("/", ".git", *)
(* " ").  A local of process_single_paper holds its value from the call    *)
(* that returns it until the statements that read it have run.             *)
(***************************************************************************)
EXTENDS Integers, Sequences, FiniteSets, TLC

VARIABLES
    args,               \* use_llm, skip_pdf, skip_validation, resume
    links,              \* github_links.json of the current paper as read or written
    i,                  \* process_all_papers: index of the current paper
    pc,                 \* position in process_all_papers / process_single_paper
    stats,              \* process_all_papers: the statistics dict
    outcome,            \* how the loop left each paper (history)
    code_data,          \* process_single_paper: the record being built
    pdf_result,         \* result of process_paper_pdf for the current paper
    github_result,      \* result of search_github_implementations
    validation_result,  \* outcome of validate_repository
    calls,              \* external calls issued by the stage that just ran
    result,             \* return value of process_single_paper
    fn                  \* function-level specifications: inputs and output

vars == <<args, links, i, pc, stats, outcome, code_data, pdf_result,
          github_result, validation_result, calls, result, fn>>

----------------------------------------------------------------------------
(* Python values *)

None == <<>>

Some(x) == <<x>>

\* d.get(k, default)
Get(d, k, default) == IF d = <<>> THEN default
                      ELSE IF k \in DOMAIN d THEN d[k] ELSE default

\* k in d
HasKey(d, k) == IF d = <<>> THEN FALSE ELSE k \in DOMAIN d

\* {**a, **b}
Merge(a, b) == IF a = <<>> THEN b
               ELSE IF b = <<>> THEN a
               ELSE [k \in (DOMAIN a) \cup (DOMAIN b) |->
                        IF k \in DOMAIN b THEN b[k] ELSE a[k]]

Min(a, b) == IF a <= b THEN a ELSE b

\* s[:n]
Take(s, n) == SubSeq(s, 1, Min(n, Len(s)))

\* the sequences over S of length at most n
SeqsUpTo(S, n) == UNION {[1..k -> S] : k \in 0..n}

----------------------------------------------------------------------------
(* Bounds of the model *)

NumPapers == 2

----------------------------------------------------------------------------
(* config.py *)

MIN_REPO_SIZE_KB == 10

MAX_ABANDONED_YEARS == 3

MIN_STARS_FOR_OLD_REPO == 5

CODE_HOST_DOMAINS == << <<"github", "com">>, <<"gitlab", "com">>,
                        <<"bitbucket", "org">>, <<"gitee", "com">>,
                        <<"gitcode", "com">> >>

\* the extensions of CODE_EXTENSIONS that the modelled file names use
CODE_EXTENSIONS == {".py", ".cu", ".sh", ".yaml"}

TYPICAL_IMPL_FILES == {"train.py", "main.py", "model.py"}

TYPICAL_IMPL_DIRS == {"models", "src", "lib"}

----------------------------------------------------------------------------
(* URL strings *)

Url(host, path, tail) == [host |-> host, path |-> path, tail |-> tail]

\* utils.normalize_url: url.strip().rstrip('/'), then one '.git' suffix removed
RECURSIVE RStrip(_, _)
RStrip(s, chars) == IF s # <<>> /\ s[Len(s)] \in chars
                    THEN RStrip(SubSeq(s, 1, Len(s) - 1), chars)
                    ELSE s

normalize_url(url) ==
    LET stripped == RStrip(RStrip(url.tail, {" "}), {"/"})
    IN  [url EXCEPT !.tail = IF stripped # <<>> /\ stripped[Len(stripped)] = ".git"
                             THEN SubSeq(stripped, 1, Len(stripped) - 1)
                             ELSE stripped]

\* utils.extract_repo_owner_name: None unless the path has two segments
extract_repo_owner_name(url) ==
    IF Len(url.path) >= 2 THEN Some(<<url.path[1], url.path[2]>>) ELSE None

\* domain == d or domain.endswith('.' + d)
DomainMatches(domain, d) ==
    /\ Len(domain) >= Len(d)
    /\ SubSeq(domain, Len(domain) - Len(d) + 1, Len(domain)) = d

\* utils.is_valid_repo_url
is_valid_repo_url(url, allowed_domains) ==
    LET domain == IF url.host # <<>> /\ url.host[1] = "www"
                  THEN Tail(url.host) ELSE url.host
    IN  /\ \E k \in DOMAIN allowed_domains : DomainMatches(domain, allowed_domains[k])
        /\ Len(url.path) >= 2

\* utils.create_code_data_structure
create_code_data_structure ==
    [official_repo_url |-> None,
     unofficial_repo_urls |-> <<>>,
     selected_repo_url |-> None,
     repo_type |-> "None",
     quality |-> [score |-> None, is_meaningful |-> None, reason |-> "None"],
     extraction_source |-> "None",
     processed_at |-> FALSE]

----------------------------------------------------------------------------
(* repo_validator.py *)

\* os.path.splitext(name)[1].lower() of the modelled file names
Ext(name) == CASE name = "train.py" -> ".py"
               [] name = "util.cu" -> ".cu"
               [] name = "README.md" -> ".md"
               [] OTHER -> ""

IsCodeFile(item) == item.type = "file" /\ Ext(item.name) \in CODE_EXTENSIONS

IsOtherFile(item) == item.type = "file" /\ Ext(item.name) \notin CODE_EXTENSIONS

IsDir(item) == item.type = "dir"

\* the analysis counting every file as a code file
AnalyzeCountsEveryFile(files) ==
    [code_file_count |-> Len(SelectSeq(files, LAMBDA item : item.type = "file")),
     code_files |-> LET sel == SelectSeq(files, LAMBDA item : item.type = "file")
                    IN  [k \in DOMAIN sel |-> sel[k].name],
     non_code_file_count |-> 0,
     directory_count |-> Len(SelectSeq(files, IsDir)),
     directories |-> LET sel == SelectSeq(files, IsDir)
                     IN  [k \in DOMAIN sel |-> sel[k].name],
     has_typical_files |->
        \E k \in DOMAIN files : IsCodeFile(files[k]) /\ files[k].name \in TYPICAL_IMPL_FILES,
     has_typical_dirs |->
        \E k \in DOMAIN files : IsDir(files[k]) /\ files[k].name \in TYPICAL_IMPL_DIRS]

\* analyze_file_structure
analyze_file_structure(files) ==
    [code_file_count |-> Len(SelectSeq(files, IsCodeFile)),
     code_files |-> LET sel == SelectSeq(files, IsCodeFile)
                    IN  [k \in DOMAIN sel |-> sel[k].name],
     non_code_file_count |-> Len(SelectSeq(files, IsOtherFile)),
     directory_count |-> Len(SelectSeq(files, IsDir)),
     directories |-> LET sel == SelectSeq(files, IsDir)
                     IN  [k \in DOMAIN sel |-> sel[k].name],
     has_typical_files |->
        \E k \in DOMAIN files : IsCodeFile(files[k]) /\ files[k].name \in TYPICAL_IMPL_FILES,
     has_typical_dirs |->
        \E k \in DOMAIN files : IsDir(files[k]) /\ files[k].name \in TYPICAL_IMPL_DIRS]

\* the rules with the size threshold one kilobyte too low
RulesTinyOffByOne(repo_info, files, current_year) ==
    IF extract_repo_owner_name(repo_info.html_url) = None THEN
        [is_meaningful |-> Some(FALSE), confident |-> TRUE,
         reason |-> "Invalid repository URL", score |-> Some(0)]
    ELSE IF files = None THEN
        [is_meaningful |-> None, confident |-> FALSE,
         reason |-> "Cannot fetch repository contents", score |-> None]
    ELSE LET structure == analyze_file_structure(files[1]) IN
    IF structure.code_file_count = 0 THEN
        [is_meaningful |-> Some(FALSE), confident |-> TRUE,
         reason |-> "No code files found", score |-> Some(0),
         structure |-> structure]
    ELSE IF repo_info.size < MIN_REPO_SIZE_KB - 1 /\ structure.code_file_count <= 1 THEN
        [is_meaningful |-> Some(FALSE), confident |-> TRUE,
         reason |-> "Very tiny repo with almost no code", score |-> Some(10),
         structure |-> structure]
    ELSE IF repo_info.archived THEN
        [is_meaningful |-> Some(FALSE), confident |-> TRUE,
         reason |-> "Repository is archived", score |-> Some(20),
         structure |-> structure]
    ELSE IF /\ repo_info.pushed_at # None
            /\ current_year - repo_info.pushed_at[1] > MAX_ABANDONED_YEARS
            /\ repo_info.stars < MIN_STARS_FOR_OLD_REPO THEN
        [is_meaningful |-> Some(FALSE), confident |-> TRUE,
         reason |-> "Abandoned repo", score |-> Some(20),
         structure |-> structure]
    ELSE
        [is_meaningful |-> Some(TRUE), confident |-> FALSE,
         reason |-> "Has code files and basic structure", score |-> None,
         structure |-> structure]

\* the rules with the archived test ahead of the size test
RulesArchivedFirst(repo_info, files, current_year) ==
    IF extract_repo_owner_name(repo_info.html_url) = None THEN
        [is_meaningful |-> Some(FALSE), confident |-> TRUE,
         reason |-> "Invalid repository URL", score |-> Some(0)]
    ELSE IF files = None THEN
        [is_meaningful |-> None, confident |-> FALSE,
         reason |-> "Cannot fetch repository contents", score |-> None]
    ELSE LET structure == analyze_file_structure(files[1]) IN
    IF structure.code_file_count = 0 THEN
        [is_meaningful |-> Some(FALSE), confident |-> TRUE,
         reason |-> "No code files found", score |-> Some(0),
         structure |-> structure]
    ELSE IF repo_info.archived THEN
        [is_meaningful |-> Some(FALSE), confident |-> TRUE,
         reason |-> "Repository is archived", score |-> Some(20),
         structure |-> structure]
    ELSE IF repo_info.size < MIN_REPO_SIZE_KB /\ structure.code_file_count <= 1 THEN
        [is_meaningful |-> Some(FALSE), confident |-> TRUE,
         reason |-> "Very tiny repo with almost no code", score |-> Some(10),
         structure |-> structure]
    ELSE IF /\ repo_info.pushed_at # None
            /\ current_year - repo_info.pushed_at[1] > MAX_ABANDONED_YEARS
            /\ repo_info.stars < MIN_STARS_FOR_OLD_REPO THEN
        [is_meaningful |-> Some(FALSE), confident |-> TRUE,
         reason |-> "Abandoned repo", score |-> Some(20),
         structure |-> structure]
    ELSE
        [is_meaningful |-> Some(TRUE), confident |-> FALSE,
         reason |-> "Has code files and basic structure", score |-> None,
         structure |-> structure]

\* the rules with a push MAX_ABANDONED_YEARS years ago counted as abandoned
RulesAbandonedAtLimit(repo_info, files, current_year) ==
    IF extract_repo_owner_name(repo_info.html_url) = None THEN
        [is_meaningful |-> Some(FALSE), confident |-> TRUE,
         reason |-> "Invalid repository URL", score |-> Some(0)]
    ELSE IF files = None THEN
        [is_meaningful |-> None, confident |-> FALSE,
         reason |-> "Cannot fetch repository contents", score |-> None]
    ELSE LET structure == analyze_file_structure(files[1]) IN
    IF structure.code_file_count = 0 THEN
        [is_meaningful |-> Some(FALSE), confident |-> TRUE,
         reason |-> "No code files found", score |-> Some(0),
         structure |-> structure]
    ELSE IF repo_info.size < MIN_REPO_SIZE_KB /\ structure.code_file_count <= 1 THEN
        [is_meaningful |-> Some(FALSE), confident |-> TRUE,
         reason |-> "Very tiny repo with almost no code", score |-> Some(10),
         structure |-> structure]
    ELSE IF repo_info.archived THEN
        [is_meaningful |-> Some(FALSE), confident |-> TRUE,
         reason |-> "Repository is archived", score |-> Some(20),
         structure |-> structure]
    ELSE IF /\ repo_info.pushed_at # None
            /\ current_year - repo_info.pushed_at[1] >= MAX_ABANDONED_YEARS
            /\ repo_info.stars < MIN_STARS_FOR_OLD_REPO THEN
        [is_meaningful |-> Some(FALSE), confident |-> TRUE,
         reason |-> "Abandoned repo", score |-> Some(20),
         structure |-> structure]
    ELSE
        [is_meaningful |-> Some(TRUE), confident |-> FALSE,
         reason |-> "Has code files and basic structure", score |-> None,
         structure |-> structure]

\* rule_based_filter.  files is get_repo_file_tree's answer for the root
\* (None, or Some(listing)); current_year is datetime.now().year; pushed_at is
\* Some(year) when strptime parses it and None when it raises.
rule_based_filter(repo_info, files, current_year) ==
    IF extract_repo_owner_name(repo_info.html_url) = None THEN
        [is_meaningful |-> Some(FALSE), confident |-> TRUE,
         reason |-> "Invalid repository URL", score |-> Some(0)]
    ELSE IF files = None THEN
        [is_meaningful |-> None, confident |-> FALSE,
         reason |-> "Cannot fetch repository contents", score |-> None]
    ELSE LET structure == analyze_file_structure(files[1]) IN
    IF structure.code_file_count = 0 THEN
        [is_meaningful |-> Some(FALSE), confident |-> TRUE,
         reason |-> "No code files found", score |-> Some(0),
         structure |-> structure]
    ELSE IF repo_info.size < MIN_REPO_SIZE_KB /\ structure.code_file_count <= 1 THEN
        [is_meaningful |-> Some(FALSE), confident |-> TRUE,
         reason |-> "Very tiny repo with almost no code", score |-> Some(10),
         structure |-> structure]
    ELSE IF repo_info.archived THEN
        [is_meaningful |-> Some(FALSE), confident |-> TRUE,
         reason |-> "Repository is archived", score |-> Some(20),
         structure |-> structure]
    ELSE IF /\ repo_info.pushed_at # None
            /\ current_year - repo_info.pushed_at[1] > MAX_ABANDONED_YEARS
            /\ repo_info.stars < MIN_STARS_FOR_OLD_REPO THEN
        [is_meaningful |-> Some(FALSE), confident |-> TRUE,
         reason |-> "Abandoned repo", score |-> Some(20),
         structure |-> structure]
    ELSE
        [is_meaningful |-> Some(TRUE), confident |-> FALSE,
         reason |-> "Has code files and basic structure", score |-> None,
         structure |-> structure]

\* the evaluation with a failed gateway call reported as a negative verdict
EvaluateFailureIsNegative(structure, response) ==
    IF ~HasKey(structure, "code_file_count") THEN
        [exc |-> "KeyError", val |-> None, llm_called |-> FALSE]
    ELSE IF response = None THEN
        [exc |-> "", llm_called |-> TRUE,
         val |-> [is_meaningful |-> Some(FALSE), score |-> Some(0),
                  reason |-> "LLM evaluation failed"]]
    ELSE
        [exc |-> "", llm_called |-> TRUE,
         val |-> [is_meaningful |-> Get(response, "is_meaningful", Some(FALSE)),
                  score |-> Get(response, "overall_score", Some(0)),
                  reasons |-> Get(response, "reasons", <<>>)]]

\* llm_evaluate_repo.  structure is rule_result.get("structure", {}); response
\* is call_json's answer (None, or the reply object).  The prompt is built from
\* structure['code_file_count'] before the gateway is called: a structure
\* without that key raises KeyError.
llm_evaluate_repo(structure, response) ==
    IF ~HasKey(structure, "code_file_count") THEN
        [exc |-> "KeyError", val |-> None, llm_called |-> FALSE]
    ELSE IF response = None THEN
        [exc |-> "", llm_called |-> TRUE,
         val |-> [is_meaningful |-> None, score |-> None,
                  reason |-> "LLM evaluation failed"]]
    ELSE
        [exc |-> "", llm_called |-> TRUE,
         val |-> [is_meaningful |-> Get(response, "is_meaningful", Some(FALSE)),
                  is_implementation |->
                      Get(response, "is_implementation_of_paper", Some(FALSE)),
                  has_complete_architecture |->
                      Get(response, "has_complete_architecture", Some(FALSE)),
                  code_organization_score |->
                      Get(response, "code_organization_score", Some(0)),
                  maintenance_score |-> Get(response, "maintenance_score", Some(0)),
                  code_quality_score |-> Get(response, "code_quality_score", Some(0)),
                  score |-> Get(response, "overall_score", Some(0)),
                  architecture_analysis |-> Get(response, "architecture_analysis", ""),
                  reasons |-> Get(response, "reasons", <<>>)]]

NoCalls == [repo_info |-> 0, root_listing |-> 0, deep_walk |-> 0, sample |-> 0,
            readme |-> 0, llm_eval |-> 0, llm_extract |-> 0, llm_select |-> 0,
            llm_filter |-> 0, search |-> 0]

\* the validation escalating to Stage 2 with LLM use disabled too
ValidateIgnoresUseLlm(repo_url, repo_info, files, deep_code_files, response, use_llm, current_year) ==
    IF extract_repo_owner_name(repo_url) = None THEN
        [exc |-> "", stage1 |-> None, issued |-> NoCalls,
         val |-> [is_meaningful |-> Some(FALSE), score |-> Some(0),
                  reason |-> "Invalid repository URL"]]
    ELSE IF repo_info = None THEN
        [exc |-> "", stage1 |-> None,
         issued |-> [NoCalls EXCEPT !.repo_info = 1],
         val |-> [is_meaningful |-> Some(FALSE), score |-> Some(0),
                  reason |-> "Repository not found or inaccessible"]]
    ELSE LET rule_result == rule_based_filter(repo_info, files, current_year)
             stage1calls == [NoCalls EXCEPT !.repo_info = 1, !.root_listing = 1]
         IN
    IF rule_result.confident THEN
        [exc |-> "", stage1 |-> rule_result, issued |-> stage1calls, val |-> rule_result]
    ELSE IF TRUE THEN
        LET llm_result == llm_evaluate_repo(Get(rule_result, "structure", <<>>), response)
            stage2calls == [stage1calls EXCEPT
                               !.deep_walk = 1,
                               !.sample = IF deep_code_files > 0 THEN 1 ELSE 0,
                               !.readme = 1,
                               !.llm_eval = IF llm_result.llm_called THEN 1 ELSE 0]
        IN  IF llm_result.exc # "" THEN
                [exc |-> llm_result.exc, stage1 |-> rule_result,
                 issued |-> stage2calls, val |-> None]
            ELSE
                [exc |-> "", stage1 |-> rule_result, issued |-> stage2calls,
                 val |-> Merge(Merge(rule_result, llm_result.val),
                               [confident |-> TRUE])]
    ELSE
        [exc |-> "", stage1 |-> rule_result, issued |-> stage1calls, val |-> rule_result]

\* validate_repository.  repo_info is get_repo_info's answer (None or the dict),
\* files the root listing, deep_code_files the number of code files the deep
\* walk collected, response the Stage 2 gateway answer.  The value is the
\* returned verdict (val), or the exception that leaves the function (exc), with
\* the Stage 1 result and the calls that were issued.
validate_repository(repo_url, repo_info, files, deep_code_files, response, use_llm, current_year) ==
    IF extract_repo_owner_name(repo_url) = None THEN
        [exc |-> "", stage1 |-> None, issued |-> NoCalls,
         val |-> [is_meaningful |-> Some(FALSE), score |-> Some(0),
                  reason |-> "Invalid repository URL"]]
    ELSE IF repo_info = None THEN
        [exc |-> "", stage1 |-> None,
         issued |-> [NoCalls EXCEPT !.repo_info = 1],
         val |-> [is_meaningful |-> Some(FALSE), score |-> Some(0),
                  reason |-> "Repository not found or inaccessible"]]
    ELSE LET rule_result == rule_based_filter(repo_info, files, current_year)
             stage1calls == [NoCalls EXCEPT !.repo_info = 1, !.root_listing = 1]
         IN
    IF rule_result.confident THEN
        [exc |-> "", stage1 |-> rule_result, issued |-> stage1calls, val |-> rule_result]
    ELSE IF use_llm THEN
        LET llm_result == llm_evaluate_repo(Get(rule_result, "structure", <<>>), response)
            stage2calls == [stage1calls EXCEPT
                               !.deep_walk = 1,
                               !.sample = IF deep_code_files > 0 THEN 1 ELSE 0,
                               !.readme = 1,
                               !.llm_eval = IF llm_result.llm_called THEN 1 ELSE 0]
        IN  IF llm_result.exc # "" THEN
                [exc |-> llm_result.exc, stage1 |-> rule_result,
                 issued |-> stage2calls, val |-> None]
            ELSE
                [exc |-> "", stage1 |-> rule_result, issued |-> stage2calls,
                 val |-> Merge(Merge(rule_result, llm_result.val),
                               [confident |-> TRUE])]
    ELSE
        [exc |-> "", stage1 |-> rule_result, issued |-> stage1calls, val |-> rule_result]

----------------------------------------------------------------------------
(* pdf_extractor.py *)

\* the words a URL's text contains, read off its host labels and path segments
UrlWords(url) ==
    UNION {CASE url.host[k] = "github" -> {"github"}
             [] url.host[k] = "gitlab" -> {"gitlab"}
             [] url.host[k] = "arxiv" -> {"arxiv.org"}
             [] OTHER -> {} : k \in DOMAIN url.host}
    \cup (IF \E k \in DOMAIN url.host :
                k < Len(url.host) /\ url.host[k] = "github" /\ url.host[k + 1] = "io"
          THEN {"github.io"} ELSE {})
    \cup (IF \E k \in DOMAIN url.host :
                k < Len(url.host) /\ url.host[k] = "github" /\ url.host[k + 1] = "com"
          THEN {"github.com"} ELSE {})
    \cup (IF \E k \in DOMAIN url.host :
                k < Len(url.host) /\ url.host[k] = "gitlab" /\ url.host[k + 1] = "com"
          THEN {"gitlab.com"} ELSE {})
    \cup UNION {CASE url.path[k] = "demo" -> {"demo"}
                  [] url.path[k] = "demo-net" -> {"demo"}
                  [] url.path[k] = "proj" -> {}
                  [] OTHER -> {} : k \in DOMAIN url.path}

\* s without the later occurrences of its elements
RECURSIVE Dedup(_)
Dedup(s) == IF s = <<>> THEN <<>>
            ELSE LET init == Dedup(SubSeq(s, 1, Len(s) - 1))
                     last == s[Len(s)]
                 IN  IF \E k \in DOMAIN init : init[k] = last
                     THEN init ELSE Append(init, last)

RECURSIVE MapNormalize(_)
MapNormalize(s) == IF s = <<>> THEN <<>>
                   ELSE <<normalize_url(Head(s))>> \o MapNormalize(Tail(s))

IsDirectRepo(url) == is_valid_repo_url(url, CODE_HOST_DOMAINS)

IsProjectPage(url) ==
    /\ ~IsDirectRepo(url)
    /\ UrlWords(url) \cap {"github.io", "project", "page", "demo", "site"} # {}
    /\ UrlWords(url) \cap {"arxiv.org", "doi.org", "youtube.com"} = {}

\* filter_code_urls.  extract_github_from_project_page is called at line 362
\* and defined nowhere (its body follows the return of extract_urls_fallback):
\* reaching the call raises NameError.
filter_code_urls(urls) ==
    LET code_urls == Dedup(MapNormalize(SelectSeq(urls, IsDirectRepo)))
        project_pages == SelectSeq(urls, IsProjectPage)
    IN  IF code_urls = <<>> /\ project_pages # <<>>
        THEN [exc |-> "NameError", val |-> <<>>]
        ELSE [exc |-> "", val |-> code_urls]

\* is_likely_code_url on the context find_urls_with_context cut out: the
\* window holds the URL itself, so a keyword inside the URL counts
is_likely_code_url(url, context) ==
    context = "keyword" \/ UrlWords(url) \cap {"code", "github", "gitlab"} # {}

\* lines 537-541: the URLs text.find locates whose context has a keyword
RECURSIVE LikelyCodeUrls(_, _)
LikelyCodeUrls(code_urls, ctx) ==
    IF code_urls = <<>> THEN <<>>
    ELSE LET n == Len(code_urls)
             init == LikelyCodeUrls(SubSeq(code_urls, 1, n - 1), ctx)
         IN  IF ctx[n] # "notfound" /\ is_likely_code_url(code_urls[n], ctx[n])
             THEN Append(init, code_urls[n]) ELSE init

\* str.lower() of a reply string
Lower(url) == [url EXCEPT !.path = [k \in DOMAIN url.path |->
                                       IF url.path[k] = "Null" THEN "null"
                                       ELSE url.path[k]]]

NullString == Url(<<>>, <<"null">>, <<>>)

\* the selection falling back to the first candidate when the reply names none
SelectFirstOnNull(candidate_urls, response) ==
    IF candidate_urls = <<>> THEN [val |-> None, llm_called |-> FALSE]
    ELSE IF Len(candidate_urls) = 1 THEN [val |-> candidate_urls[1], llm_called |-> FALSE]
    ELSE IF /\ HasKey(response, "selected_url")
            /\ response.selected_url # None
            /\ Lower(response.selected_url) # NullString
         THEN [val |-> normalize_url(response.selected_url), llm_called |-> TRUE]
         ELSE [val |-> candidate_urls[1], llm_called |-> TRUE]

\* the selection without the shortcuts for no candidate and one candidate
SelectAlwaysAsks(candidate_urls, response) ==
    IF /\ HasKey(response, "selected_url")
       /\ response.selected_url # None
       /\ Lower(response.selected_url) # NullString
    THEN [val |-> normalize_url(response.selected_url), llm_called |-> TRUE]
    ELSE [val |-> None, llm_called |-> TRUE]

\* select_official_repo_with_llm
select_official_repo_with_llm(candidate_urls, response) ==
    IF candidate_urls = <<>> THEN [val |-> None, llm_called |-> FALSE]
    ELSE IF Len(candidate_urls) = 1 THEN [val |-> candidate_urls[1], llm_called |-> FALSE]
    ELSE IF /\ HasKey(response, "selected_url")
            /\ response.selected_url # None
            /\ Lower(response.selected_url) # NullString
         THEN [val |-> normalize_url(response.selected_url), llm_called |-> TRUE]
         ELSE [val |-> None, llm_called |-> TRUE]

PdfFailure == [success |-> FALSE, official_repo_url |-> None,
               candidates |-> <<>>, source |-> "pdf"]

\* extract_code_urls_from_pdf from step 3 on.  text is "none" (no text could be
\* extracted), "nourls" (no http(s):// in it) or "urls"; all_urls is what step 3
\* (extract_urls_with_llm or extract_urls_fallback) returned, ctx the context
\* of each code URL in the text, response the answer of the gateway call made
\* to pick the official repository.
extract_code_urls_from_pdf(text, all_urls, ctx, response, use_llm) ==
    IF text \in {"none", "nourls"} THEN
        [exc |-> "", val |-> PdfFailure, llm_extract |-> 0, llm_select |-> 0]
    ELSE LET extract_calls == IF use_llm THEN 1 ELSE 0
             filtered == filter_code_urls(all_urls)
             code_urls == filtered.val
         IN
    IF filtered.exc # "" THEN
        [exc |-> filtered.exc, val |-> None, llm_extract |-> extract_calls, llm_select |-> 0]
    ELSE IF code_urls = <<>> THEN
        [exc |-> "", val |-> PdfFailure, llm_extract |-> extract_calls, llm_select |-> 0]
    ELSE LET likely_code_urls == LikelyCodeUrls(code_urls, ctx)
             candidates == IF likely_code_urls # <<>> THEN likely_code_urls ELSE code_urls
             selection == select_official_repo_with_llm(candidates, response)
             official_url == IF Len(candidates) = 1 THEN candidates[1]
                             ELSE IF Len(candidates) > 1 /\ use_llm THEN selection.val
                             ELSE IF Len(candidates) > 1 THEN candidates[1]
                             ELSE None
         IN  [exc |-> "",
              val |-> [success |-> official_url # None,
                       official_repo_url |-> official_url,
                       candidates |-> candidates,
                       source |-> "pdf"],
              llm_extract |-> extract_calls,
              llm_select |-> IF Len(candidates) > 1 /\ use_llm /\ selection.llm_called
                             THEN 1 ELSE 0]

\* process_paper_pdf
process_paper_pdf(pdf_exists, text, all_urls, ctx, response, use_llm) ==
    IF ~pdf_exists
    THEN [exc |-> "", val |-> PdfFailure, llm_extract |-> 0, llm_select |-> 0]
    ELSE extract_code_urls_from_pdf(text, all_urls, ctx, response, use_llm)

----------------------------------------------------------------------------
(* github_search.py *)

\* the search with a more starred second result moved ahead of the first
SearchSortsByStars(api, max_results) ==
    IF api.kind # "ok" THEN <<>>
    ELSE LET its == Take(api.items, max_results)
         IN  IF Len(its) >= 2 /\ its[1].stars < its[2].stars
             THEN <<its[2], its[1]>> \o SubSeq(its, 3, Len(its))
             ELSE its

\* GitHubSearcher.search_repositories.  api is what _make_request and
\* response.json() gave: kind "unavailable" (None after the retries),
\* "status" (a reply other than 200), "malformed" (the body does not parse or
\* an item lacks a field) or "ok" with the items in the API's order.
search_repositories(api, max_results) ==
    IF api.kind # "ok" THEN <<>> ELSE Take(api.items, max_results)

\* list.sort(key=relevance, reverse=True): stable, descending
RECURSIVE InsertByRelevance(_, _)
InsertByRelevance(sorted, x) ==
    IF sorted = <<>> THEN <<x>>
    ELSE IF Head(sorted).relevance >= x.relevance
         THEN <<Head(sorted)>> \o InsertByRelevance(Tail(sorted), x)
         ELSE <<x>> \o sorted

RECURSIVE SortByRelevance(_)
SortByRelevance(s) ==
    IF s = <<>> THEN <<>>
    ELSE InsertByRelevance(SortByRelevance(SubSeq(s, 1, Len(s) - 1)), s[Len(s)])

\* lines 292-303: the candidates the reply accepts, in the reply's order
RECURSIVE AcceptedByReply(_, _)
AcceptedByReply(items, candidates) ==
    IF items = <<>> THEN <<>>
    ELSE LET item == items[Len(items)]
             init == AcceptedByReply(SubSeq(items, 1, Len(items) - 1), candidates)
             hits == {k \in DOMAIN candidates : candidates[k].full_name = item.full_name}
         IN  IF /\ Get(item, "is_implementation", FALSE)
                /\ Get(item, "relevance", 0) > 30
                /\ hits # {}
             THEN LET first == CHOOSE k \in hits : \A j \in hits : k <= j
                  IN  Append(init, Merge(candidates[first],
                                         [relevance |-> item.relevance]))
             ELSE init

\* filter_implementations_with_llm
filter_implementations_with_llm(candidates, response) ==
    IF candidates = <<>> THEN [val |-> <<>>, llm_called |-> FALSE]
    ELSE IF ~HasKey(response, "repositories")
         THEN [val |-> <<>>, llm_called |-> TRUE]
         ELSE [val |-> SortByRelevance(AcceptedByReply(response.repositories, candidates)),
               llm_called |-> TRUE]

HtmlUrls(repos) == [k \in DOMAIN repos |-> repos[k].html_url]

\* the search filtering through the gateway whatever use_llm says
SearchAlwaysFilters(api, response, max_results, use_llm) ==
    LET candidates == search_repositories(api, max_results) IN
    IF candidates = <<>> THEN
        [val |-> [success |-> FALSE, unofficial_repos |-> <<>>,
                  repo_details |-> <<>>, source |-> "github_search"],
         found |-> <<>>, llm_filter |-> 0]
    ELSE LET filtering == filter_implementations_with_llm(candidates, response)
             filtered == filtering.val
         IN  [val |-> [success |-> filtered # <<>>,
                       unofficial_repos |-> HtmlUrls(filtered),
                       repo_details |-> filtered,
                       source |-> "github_search"],
              found |-> candidates,
              llm_filter |-> IF filtering.llm_called THEN 1 ELSE 0]

\* search_github_implementations
search_github_implementations(api, response, max_results, use_llm) ==
    LET candidates == search_repositories(api, max_results) IN
    IF candidates = <<>> THEN
        [val |-> [success |-> FALSE, unofficial_repos |-> <<>>,
                  repo_details |-> <<>>, source |-> "github_search"],
         found |-> <<>>, llm_filter |-> 0]
    ELSE LET filtering == filter_implementations_with_llm(candidates, response)
             filtered == IF use_llm THEN filtering.val ELSE candidates
         IN  [val |-> [success |-> filtered # <<>>,
                       unofficial_repos |-> HtmlUrls(filtered),
                       repo_details |-> filtered,
                       source |-> "github_search"],
              found |-> candidates,
              llm_filter |-> IF use_llm /\ filtering.llm_called THEN 1 ELSE 0]

\* lines 171-197 of pdf_extractor.py.  found is what the regular expression and
\* the clean-up give on the windows, in order; the result is list(set(urls)),
\* whose order Python does not fix: every order is a possible result.
KeptByFallback(url) == UrlWords(url) \cap {"github.com", "gitlab.com"} # {}

Perms(S) == {p \in [1..Cardinality(S) -> S] :
                \A a, b \in 1..Cardinality(S) : p[a] = p[b] => a = b}

extract_urls_fallback(found) ==
    Perms({found[k] : k \in {j \in DOMAIN found : KeptByFallback(found[j])}})

\* lines 157-168: the reply's urls that are neither null nor "null"
RECURSIVE ReplyUrls(_)
ReplyUrls(items) ==
    IF items = <<>> THEN <<>>
    ELSE LET url == Get(Head(items), "url", None)
         IN  (IF url # None /\ Lower(url) # NullString THEN <<url>> ELSE <<>>)
             \o ReplyUrls(Tail(items))

\* the extraction yielding no URL when the gateway call fails
ExtractGivesUpOnFailure(found, response) ==
    IF ~HasKey(response, "urls") THEN {<<>>}
    ELSE {ReplyUrls(response.urls)}

\* extract_urls_with_llm: the possible results
extract_urls_with_llm(found, response) ==
    IF ~HasKey(response, "urls") THEN extract_urls_fallback(found)
    ELSE {ReplyUrls(response.urls)}

----------------------------------------------------------------------------
(* The environment: what the external calls can answer *)

UA == Url(<<"github", "com">>, <<"acme", "demo-net">>, <<>>)

UB == Url(<<"github", "com">>, <<"lab", "other">>, <<>>)

UAGit == Url(<<"github", "com">>, <<"acme", "demo-net">>, <<".git">>)

UBit == Url(<<"bitbucket", "org">>, <<"team", "proj">>, <<>>)

UPage == Url(<<"acme", "github", "io">>, <<"demo">>, <<>>)

UArxiv == Url(<<"arxiv", "org">>, <<"abs", "1">>, <<>>)

UOne == Url(<<"github", "com">>, <<"acme">>, <<>>)

\* URLs a document text can hold
TextUrls == {UA, UB, UAGit, UBit, UPage, UArxiv}

FoundLists == SeqsUpTo(TextUrls, 2)

\* replies of the gateway to the URL extraction request
ExtractResponses ==
    {None, [note |-> "no urls field"]}
    \cup {[urls |-> [k \in DOMAIN l |-> [url |-> l[k]]]] :
            l \in SeqsUpTo(TextUrls \cup {NullString}, 2) \ {<<>>}}

\* replies of the gateway to the request that picks the official repository
SelectResponses(candidates) ==
    {None, [reason |-> "no selected_url field"],
     [selected_url |-> None], [selected_url |-> NullString],
     [selected_url |-> Url(<<>>, <<"Null">>, <<>>)],
     [selected_url |-> UOne]}
    \cup {[selected_url |-> candidates[k]] : k \in DOMAIN candidates}
    \cup {[selected_url |-> [candidates[k] EXCEPT !.tail = <<".git", "/">>]] :
            k \in DOMAIN candidates}

SelectReplyKind(response) ==
    IF response = None THEN "failed"
    ELSE IF ~HasKey(response, "selected_url") THEN "nofield"
    ELSE IF response.selected_url = None THEN "null"
    ELSE IF Lower(response.selected_url) = NullString THEN "nullstring"
    ELSE "url"

Repo(owner, name, stars) ==
    [full_name |-> <<owner, name>>,
     html_url |-> Url(<<"github", "com">>, <<owner, name>>, <<>>),
     stars |-> stars]

\* main.py line 97
SEARCH_MAX_RESULTS == 10

\* answers of the search endpoint
SearchAnswers ==
    {[kind |-> "unavailable", items |-> <<>>],
     [kind |-> "status", items |-> <<>>],
     [kind |-> "malformed", items |-> <<>>],
     [kind |-> "ok", items |-> <<>>],
     [kind |-> "ok", items |-> <<Repo("acme", "demo-net", 120)>>],
     [kind |-> "ok", items |-> <<Repo("acme", "demo-net", 120), Repo("lab", "other", 5),
                                 Repo("x", "third", 80)>>],
     [kind |-> "ok", items |-> <<Repo("lab", "other", 5), Repo("acme", "demo-net", 120)>>],
     [kind |-> "ok", items |-> [k \in 1..(SEARCH_MAX_RESULTS + 1) |->
                                  Repo("org", ToString(k), 50 - k)]]}

\* replies of the gateway to the request that filters the search results: a
\* judgement on each of the first candidates, or no usable reply
Judgements(full_name) ==
    {[full_name |-> full_name, is_implementation |-> FALSE, relevance |-> 90],
     [full_name |-> full_name, is_implementation |-> TRUE, relevance |-> 20],
     [full_name |-> full_name, is_implementation |-> TRUE, relevance |-> 90]}

FilterResponses(candidates) ==
    {None, [note |-> "no repositories field"]}
    \cup {[repositories |-> items] :
            items \in {l \in [1..Min(Len(candidates), 2) -> UNION {Judgements(candidates[k].full_name) :
                                                                     k \in DOMAIN candidates}] :
                          \A k \in DOMAIN l : l[k].full_name = candidates[k].full_name}}

FilterReplyKind(response) ==
    IF response = None THEN "failed"
    ELSE IF ~HasKey(response, "repositories") THEN "nofield"
    ELSE "list"

\* a repository as get_repo_info describes it
RepoInfo(size, stars, pushed_at, archived) ==
    [html_url |-> UA, size |-> size, stars |-> stars, pushed_at |-> pushed_at,
     archived |-> archived]

\* answers of get_repo_info to the pipeline: no answer, a live repository, an
\* archived one, an old one with few stars
RepoInfoAnswers ==
    {None, RepoInfo(50, 120, Some(2025), FALSE), RepoInfo(50, 120, Some(2025), TRUE),
     RepoInfo(50, 2, Some(2020), FALSE)}

\* the repositories rule_based_filter is examined on: sizes and stars on both
\* sides of the thresholds, pushes on both sides of the age limit and a date
\* that does not parse
RepoInfoCases ==
    {RepoInfo(sz, st, pu, ar) :
        sz \in {5, MIN_REPO_SIZE_KB - 1, MIN_REPO_SIZE_KB, 50},
        st \in {2, MIN_STARS_FOR_OLD_REPO - 1, MIN_STARS_FOR_OLD_REPO, 120},
        pu \in {None, Some(2020), Some(2022), Some(2023), Some(2025)},
        ar \in BOOLEAN}

CurrentYears == {2026}

FileEntries == {[name |-> "train.py", type |-> "file"],
                [name |-> "util.cu", type |-> "file"],
                [name |-> "README.md", type |-> "file"],
                [name |-> "models", type |-> "dir"]}

\* answers of get_repo_file_tree for the root, to the pipeline
RootListings ==
    {None, Some(<<>>), Some(<<[name |-> "README.md", type |-> "file"]>>),
     Some(<<[name |-> "train.py", type |-> "file"],
            [name |-> "models", type |-> "dir"]>>)}

\* the root listings rule_based_filter is examined on
RootListingCases == {None} \cup {Some(l) : l \in SeqsUpTo(FileEntries, 2)}

\* replies of the gateway to the Stage 2 request, to the pipeline
EvalResponses ==
    {None,
     [is_meaningful |-> Some(TRUE), overall_score |-> Some(85), reasons |-> <<"r">>],
     [is_meaningful |-> Some(FALSE), overall_score |-> Some(30), reasons |-> <<"r">>],
     [is_meaningful |-> None, overall_score |-> Some(85), reasons |-> <<"r">>],
     [architecture_analysis |-> "a"]}

\* the Stage 2 replies validate_repository is examined on
EvalResponseCases ==
    {None}
    \cup {[is_meaningful |-> m, overall_score |-> sc, reasons |-> <<"r">>] :
            m \in {None, Some(TRUE), Some(FALSE)}, sc \in {None, Some(85), Some(150)}}
    \cup {[is_meaningful |-> m, reasons |-> <<"r">>] : m \in {Some(TRUE), Some(FALSE)}}
    \cup {[overall_score |-> Some(85)], [architecture_analysis |-> "a"]}

EvalReplyKind(response) == IF response = None THEN "failed" ELSE "replied"

\* github_links.json as a paper directory can hold it before the run
ExistingFiles ==
    {<<>>,
     [create_code_data_structure EXCEPT !.repo_type = "none_found",
                                        !.processed_at = TRUE],
     [create_code_data_structure EXCEPT !.selected_repo_url = UA,
                                        !.repo_type = "official"],
     [create_code_data_structure EXCEPT !.selected_repo_url = UA,
                                        !.repo_type = "official",
                                        !.quality = [score |-> Some(85),
                                                     is_meaningful |-> Some(TRUE),
                                                     reason |-> ""]]}

----------------------------------------------------------------------------
(* main.py *)

Papers == 1..NumPapers

EmptyString == Url(<<>>, <<>>, <<>>)

\* bool(url) of an optional string
Truthy(url) == url # None /\ url # EmptyString

\* bool(x) of an optional boolean
IsTrue(x) == x = Some(TRUE)

NoStats == [total |-> NumPapers, processed |-> 0, skipped |-> 0,
            found_official |-> 0, found_unofficial |-> 0, not_found |-> 0,
            meaningful |-> 0, not_meaningful |-> 0, errors |-> 0]

\* process_all_papers lines 228-246: the tallies of a returned result
Tally(st, res) ==
    IF ~res.success THEN st
    ELSE LET repo_type == Get(res.data, "repo_type", "None")
             is_meaningful == Get(Get(res.data, "quality", <<>>), "is_meaningful", None)
         IN  [st EXCEPT
                !.processed = @ + 1,
                !.found_official = IF repo_type = "official" THEN @ + 1 ELSE @,
                !.found_unofficial = IF repo_type = "unofficial" THEN @ + 1 ELSE @,
                !.not_found = IF repo_type \in {"none_found", "none_meaningful"}
                              THEN @ + 1 ELSE @,
                !.meaningful = IF IsTrue(is_meaningful) THEN @ + 1 ELSE @,
                !.not_meaningful = IF is_meaningful = Some(FALSE) THEN @ + 1 ELSE @]

NoVerdict == [exc |-> "", val |-> None, reply |-> "none", repo_url |-> None]

NoPdf == [exc |-> "", ret |-> None, reply |-> "none"]

NoSearch == [ret |-> None, reply |-> "none", items |-> <<>>, found |-> <<>>]

NoFn == [op |-> "none"]

\* the locals of process_single_paper outside a call, and the paper's file
\* not yet read
Idle == /\ links' = <<>>
        /\ code_data' = None
        /\ pdf_result' = NoPdf
        /\ github_result' = NoSearch
        /\ validation_result' = NoVerdict
        /\ calls' = NoCalls
        /\ result' = None

Init ==
    /\ args \in [use_llm : BOOLEAN, skip_pdf : BOOLEAN,
                 skip_validation : BOOLEAN, resume : BOOLEAN]
    /\ links = <<>>
    /\ i = 1
    /\ pc = "loop"
    /\ stats = NoStats
    /\ outcome = [p \in Papers |-> "pending"]
    /\ code_data = None
    /\ pdf_result = NoPdf
    /\ github_result = NoSearch
    /\ validation_result = NoVerdict
    /\ calls = NoCalls
    /\ result = None
    /\ fn = NoFn

\* process_all_papers lines 205-217: the paper is already processed
LoopSkip ==
    /\ pc = "loop"
    /\ i <= NumPapers
    /\ \E existing \in ExistingFiles :
        args.resume /\ Get(existing, "processed_at", FALSE)
    /\ stats' = [stats EXCEPT !.skipped = @ + 1]
    /\ outcome' = [outcome EXCEPT ![i] = "skipped"]
    /\ i' = i + 1
    /\ UNCHANGED <<args, links, pc, code_data, pdf_result, github_result,
                   validation_result, calls, result, fn>>

\* process_all_papers lines 205-226: process_single_paper is called
LoopCall ==
    /\ pc = "loop"
    /\ i <= NumPapers
    /\ \E existing \in ExistingFiles :
        /\ ~(args.resume /\ Get(existing, "processed_at", FALSE))
        /\ links' = existing
    /\ outcome' = [outcome EXCEPT ![i] = "running"]
    /\ pc' = "load"
    /\ UNCHANGED <<args, i, stats, code_data, pdf_result, github_result,
                   validation_result, calls, result, fn>>

\* process_all_papers: the for loop is exhausted
LoopEnd ==
    /\ pc = "loop"
    /\ i > NumPapers
    /\ pc' = "done"
    /\ UNCHANGED <<args, links, i, stats, outcome, code_data, pdf_result,
                   github_result, validation_result, calls, result, fn>>

\* where process_single_paper goes once a repository is or is not selected
\* (lines 93 and 113)
AfterSelection(cd) ==
    IF Truthy(cd.selected_repo_url) /\ ~args.skip_validation THEN "validate" ELSE "save"

\* process_single_paper lines 53-76
LoadPaper ==
    /\ pc = "load"
    /\ \E paper_ok \in BOOLEAN :
        IF ~paper_ok THEN
            /\ result' = [success |-> FALSE, reason |-> "Cannot load paper data",
                          data |-> <<>>]
            /\ pc' = "returned"
            /\ UNCHANGED <<code_data, links>>
        ELSE IF /\ args.resume
                /\ Truthy(Get(links, "selected_repo_url", None))
                /\ ~(~args.skip_validation
                     /\ Get(Get(links, "quality", <<>>), "score", None) = None)
        THEN
            /\ result' = [success |-> TRUE, reason |-> "Already processed",
                          data |-> links]
            /\ pc' = "returned"
            /\ UNCHANGED <<code_data, links>>
        ELSE
            /\ code_data' = create_code_data_structure
            /\ pc' = IF ~args.skip_pdf THEN "pdf" ELSE "search"
            /\ links' = <<>>
            /\ UNCHANGED result
    /\ UNCHANGED <<args, i, stats, outcome, pdf_result, github_result,
                   validation_result, calls, fn>>

\* what the documents' step 3 can hand to filter_code_urls
Step3Results(use_llm) ==
    UNION {IF use_llm
           THEN UNION {extract_urls_with_llm(found, extraction) :
                          extraction \in ExtractResponses}
           ELSE extract_urls_fallback(found) : found \in FoundLists}

\* the call of process_paper_pdf at line 80 returns or raises
PdfStep(out, reply) ==
    /\ pdf_result' = [exc |-> out.exc, ret |-> out.val, reply |-> reply]
    /\ calls' = [calls EXCEPT !.llm_extract = out.llm_extract,
                              !.llm_select = out.llm_select]
    /\ pc' = IF out.exc # "" THEN "raised" ELSE "pdf_done"

\* Stage A1: process_paper_pdf
StagePdf ==
    /\ pc = "pdf"
    /\ \/ \E text \in {"nopdf", "none", "nourls"} :
            PdfStep(process_paper_pdf(text # "nopdf", text, <<>>, <<>>, None,
                                      args.use_llm), "none")
       \/ \E all_urls \in Step3Results(args.use_llm) :
            LET code_urls == filter_code_urls(all_urls).val IN
            \E ctx \in [DOMAIN code_urls -> {"notfound", "plain", "keyword"}] :
                LET likely == LikelyCodeUrls(code_urls, ctx)
                    candidates == IF likely # <<>> THEN likely ELSE code_urls
                    asks == Len(candidates) > 1 /\ args.use_llm
                IN  \E response \in (IF asks THEN SelectResponses(candidates)
                                     ELSE {None}) :
                        PdfStep(process_paper_pdf(TRUE, "urls", all_urls, ctx,
                                                  response, args.use_llm),
                                IF asks THEN SelectReplyKind(response) ELSE "none")
    /\ UNCHANGED <<args, links, i, stats, outcome, code_data, github_result,
                   validation_result, result, fn>>

\* the PDF stage followed by the search whatever it found
AfterPdfAlwaysSearches ==
    /\ pc = "pdf_done"
    /\ LET cd == IF pdf_result.ret.success
                 THEN [code_data EXCEPT
                          !.official_repo_url = pdf_result.ret.official_repo_url,
                          !.selected_repo_url = pdf_result.ret.official_repo_url,
                          !.repo_type = "official",
                          !.extraction_source = "pdf"]
                 ELSE code_data
       IN  /\ code_data' = cd
           /\ pc' = "search"
    /\ pdf_result' = NoPdf
    /\ calls' = NoCalls
    /\ UNCHANGED <<args, links, i, stats, outcome, github_result,
                   validation_result, result, fn>>

\* process_single_paper lines 82-93
AfterPdf ==
    /\ pc = "pdf_done"
    /\ LET cd == IF pdf_result.ret.success
                 THEN [code_data EXCEPT
                          !.official_repo_url = pdf_result.ret.official_repo_url,
                          !.selected_repo_url = pdf_result.ret.official_repo_url,
                          !.repo_type = "official",
                          !.extraction_source = "pdf"]
                 ELSE code_data
       IN  /\ code_data' = cd
           /\ pc' = IF Truthy(cd.selected_repo_url) THEN AfterSelection(cd)
                    ELSE "search"
    /\ pdf_result' = NoPdf
    /\ calls' = NoCalls
    /\ UNCHANGED <<args, links, i, stats, outcome, github_result,
                   validation_result, result, fn>>

\* Stages A2 and A3: search_github_implementations
StageSearch ==
    /\ pc = "search"
    /\ \E api \in SearchAnswers :
        LET candidates == search_repositories(api, SEARCH_MAX_RESULTS)
            asks == candidates # <<>> /\ args.use_llm
        IN  \E response \in (IF asks THEN FilterResponses(candidates) ELSE {None}) :
            LET out == search_github_implementations(api, response,
                                                     SEARCH_MAX_RESULTS, args.use_llm)
            IN  /\ github_result' = [ret |-> out.val,
                                     reply |-> IF asks THEN FilterReplyKind(response)
                                               ELSE "none",
                                     items |-> api.items,
                                     found |-> out.found]
                /\ calls' = [calls EXCEPT !.search = 1, !.llm_filter = out.llm_filter]
    /\ pc' = "search_done"
    /\ UNCHANGED <<args, links, i, stats, outcome, code_data, pdf_result,
                   validation_result, result, fn>>

\* process_single_paper lines 101-113
AfterSearch ==
    /\ pc = "search_done"
    /\ LET ret == github_result.ret
           cd == IF ret.success /\ ret.unofficial_repos # <<>>
                 THEN [code_data EXCEPT
                          !.unofficial_repo_urls = ret.unofficial_repos,
                          !.selected_repo_url = ret.unofficial_repos[1],
                          !.repo_type = "unofficial",
                          !.extraction_source = "github_search"]
                 ELSE [code_data EXCEPT !.repo_type = "none_found"]
       IN  /\ code_data' = cd
           /\ pc' = AfterSelection(cd)
    /\ github_result' = NoSearch
    /\ calls' = NoCalls
    /\ UNCHANGED <<args, links, i, stats, outcome, pdf_result,
                   validation_result, result, fn>>

\* Stage B: validate_repository returns or raises
StageValidate ==
    /\ pc = "validate"
    /\ LET repo_url == code_data.selected_repo_url
           reachable == extract_repo_owner_name(repo_url) # None
       IN
       \E repo_info \in (IF reachable THEN RepoInfoAnswers ELSE {None}) :
       \E files \in (IF repo_info = None THEN {None} ELSE RootListings) :
       \E current_year \in CurrentYears :
         LET stage2 == /\ repo_info # None
                       /\ ~rule_based_filter(repo_info, files, current_year).confident
                       /\ args.use_llm
         IN
         \E deep_code_files \in (IF stage2 THEN {0, 2} ELSE {0}) :
         \E response \in (IF stage2 THEN EvalResponses ELSE {None}) :
            LET out == validate_repository(repo_url, repo_info, files, deep_code_files,
                                           response, args.use_llm, current_year)
            IN  /\ validation_result' =
                     [exc |-> out.exc, val |-> out.val,
                      reply |-> IF out.issued.llm_eval = 1 THEN EvalReplyKind(response)
                                ELSE "none",
                      repo_url |-> repo_url]
                /\ calls' = out.issued
                /\ pc' = IF out.exc # "" THEN "raised" ELSE "validated"
    /\ UNCHANGED <<args, links, i, stats, outcome, code_data, pdf_result,
                   github_result, result, fn>>

\* the grading leaving the URL of a repository that is not meaningful selected
AfterValidateKeepsUrl ==
    /\ pc = "validated"
    /\ LET verdict == validation_result.val
           graded == [code_data EXCEPT !.quality =
                        [score |-> Get(verdict, "score", None),
                         is_meaningful |-> Get(verdict, "is_meaningful", None),
                         reason |-> Get(verdict, "reason", ""),
                         reasons |-> Get(verdict, "reasons", <<>>)]]
       IN  code_data' = IF IsTrue(Get(verdict, "is_meaningful", None)) THEN graded
                        ELSE [graded EXCEPT !.repo_type = "none_meaningful"]
    /\ validation_result' = NoVerdict
    /\ calls' = NoCalls
    /\ pc' = "save"
    /\ UNCHANGED <<args, links, i, stats, outcome, pdf_result, github_result,
                   result, fn>>

\* process_single_paper lines 121-134
AfterValidate ==
    /\ pc = "validated"
    /\ LET verdict == validation_result.val
           graded == [code_data EXCEPT !.quality =
                        [score |-> Get(verdict, "score", None),
                         is_meaningful |-> Get(verdict, "is_meaningful", None),
                         reason |-> Get(verdict, "reason", ""),
                         reasons |-> Get(verdict, "reasons", <<>>)]]
       IN  code_data' = IF IsTrue(Get(verdict, "is_meaningful", None)) THEN graded
                        ELSE [graded EXCEPT !.selected_repo_url = None,
                                            !.repo_type = "none_meaningful"]
    /\ validation_result' = NoVerdict
    /\ calls' = NoCalls
    /\ pc' = "save"
    /\ UNCHANGED <<args, links, i, stats, outcome, pdf_result, github_result,
                   result, fn>>

\* process_single_paper lines 136-148: the record is written and returned
Save ==
    /\ pc = "save"
    /\ code_data' = [code_data EXCEPT !.processed_at = TRUE]
    /\ links' = code_data'
    /\ result' = [success |-> TRUE, reason |-> "", data |-> code_data']
    /\ pc' = "returned"
    /\ UNCHANGED <<args, i, stats, outcome, pdf_result, github_result,
                   validation_result, calls, fn>>

\* process_all_papers lines 228-231 and the end of the loop body
Returned ==
    /\ pc = "returned"
    /\ stats' = Tally(stats, result)
    /\ outcome' = [outcome EXCEPT ![i] = IF result.success THEN "processed"
                                         ELSE "unloadable"]
    /\ i' = i + 1
    /\ pc' = "loop"
    /\ Idle
    /\ UNCHANGED <<args, fn>>

\* the handler leaving the loop at the first exception
RaisedBreaksLoop ==
    /\ pc = "raised"
    /\ stats' = [stats EXCEPT !.errors = @ + 1]
    /\ outcome' = [outcome EXCEPT ![i] = "raised"]
    /\ pc' = "done"
    /\ Idle
    /\ UNCHANGED <<args, i, fn>>

\* process_all_papers lines 251-255: an exception of process_single_paper is
\* counted and the loop goes on
Raised ==
    /\ pc = "raised"
    /\ stats' = [stats EXCEPT !.errors = @ + 1]
    /\ outcome' = [outcome EXCEPT ![i] = "raised"]
    /\ i' = i + 1
    /\ pc' = "loop"
    /\ Idle
    /\ UNCHANGED <<args, fn>>

\* process_all_papers lines 248-250: the user interrupts the call in progress
Interrupt ==
    /\ pc \in {"load", "pdf", "search", "validate"}
    /\ outcome' = [outcome EXCEPT ![i] = "interrupted"]
    /\ pc' = "interrupted"
    /\ Idle
    /\ UNCHANGED <<args, i, stats, fn>>

Next ==
    \/ LoopSkip
    \/ LoopCall
    \/ LoopEnd
    \/ LoadPaper
    \/ StagePdf
    \/ AfterPdf
    \/ StageSearch
    \/ AfterSearch
    \/ StageValidate
    \/ AfterValidate
    \/ Save
    \/ Returned
    \/ Raised
    \/ Interrupt

Spec == Init /\ [][Next]_vars

----------------------------------------------------------------------------
(* The functions on their own: Init draws the arguments, an action applies   *)
(* the function and keeps arguments and value in fn.                         *)

\* the pipeline at rest
Parked ==
    /\ args = [use_llm |-> FALSE, skip_pdf |-> FALSE, skip_validation |-> FALSE,
               resume |-> FALSE]
    /\ links = <<>>
    /\ i = 1
    /\ pc = "function"
    /\ stats = NoStats
    /\ outcome = [p \in Papers |-> "pending"]
    /\ code_data = None
    /\ pdf_result = NoPdf
    /\ github_result = NoSearch
    /\ validation_result = NoVerdict
    /\ calls = NoCalls
    /\ result = None

\* a repository whose html_url does not name owner and repository
RepoInfoBadUrl == [RepoInfo(50, 120, Some(2025), FALSE) EXCEPT !.html_url = UOne]

\* MaxSuffix: the longest run of "/", ".git" and " " after a URL's path
MaxSuffix == 3

\* spellings of one repository URL: every suffix of slashes, .git and blanks
UrlSpellings ==
    {Url(<<"github", "com">>, <<"acme", "demo-net">>, t) :
        t \in SeqsUpTo({"/", ".git", " "}, MaxSuffix)}

FnInputs ==
    {[op |-> "input", target |-> "rules", repo_info |-> r, files |-> f] :
        r \in RepoInfoCases \cup {RepoInfoBadUrl}, f \in RootListingCases}
    \cup {[op |-> "input", target |-> "select", candidate_urls |-> c] :
            c \in SeqsUpTo({UA, UB, UBit}, 3)}
    \cup {[op |-> "input", target |-> "pdf", all_urls |-> u, use_llm |-> b] :
            u \in FoundLists, b \in BOOLEAN}
    \cup {[op |-> "input", target |-> "url", url |-> u] : u \in UrlSpellings}

InitFn == Parked /\ fn \in FnInputs

pipeline == <<args, links, i, pc, stats, outcome, code_data, pdf_result,
              github_result, validation_result, calls, result>>

\* rule_based_filter(repo_info, paper_year)
ApplyRules ==
    /\ fn.op = "input" /\ fn.target = "rules"
    /\ \E current_year \in CurrentYears :
        fn' = [op |-> "rule_based_filter", repo_info |-> fn.repo_info,
               files |-> fn.files, current_year |-> current_year,
               out |-> rule_based_filter(fn.repo_info, fn.files, current_year)]
    /\ UNCHANGED pipeline

\* validate_repository(repo_url, paper_data, use_llm)
ApplyValidate ==
    /\ fn.op = "input" /\ fn.target = "rules"
    /\ \E repo_url \in {UA, UOne}, answered \in BOOLEAN, use_llm \in BOOLEAN,
          current_year \in CurrentYears :
        LET repo_info == IF answered THEN fn.repo_info ELSE None
            stage2 == /\ extract_repo_owner_name(repo_url) # None
                      /\ answered
                      /\ ~rule_based_filter(repo_info, fn.files, current_year).confident
                      /\ use_llm
        IN  \E deep_code_files \in (IF stage2 THEN {0, 2} ELSE {0}) :
            \E response \in (IF stage2 THEN EvalResponseCases ELSE {None}) :
                fn' = [op |-> "validate_repository", repo_url |-> repo_url,
                       repo_info |-> repo_info, files |-> fn.files,
                       use_llm |-> use_llm, response |-> response,
                       current_year |-> current_year,
                       out |-> validate_repository(repo_url, repo_info, fn.files,
                                                   deep_code_files, response, use_llm,
                                                   current_year)]
    /\ UNCHANGED pipeline

\* select_official_repo_with_llm(paper_data, candidate_urls)
ApplySelect ==
    /\ fn.op = "input" /\ fn.target = "select"
    /\ \E response \in (IF Len(fn.candidate_urls) > 1
                        THEN SelectResponses(fn.candidate_urls) ELSE {None}) :
        fn' = [op |-> "select_official_repo_with_llm",
               candidate_urls |-> fn.candidate_urls, response |-> response,
               out |-> select_official_repo_with_llm(fn.candidate_urls, response)]
    /\ UNCHANGED pipeline

\* extract_code_urls_from_pdf(pdf_path, paper_data, use_llm) from step 3 on
ApplyExtract ==
    /\ fn.op = "input" /\ fn.target = "pdf"
    /\ LET code_urls == filter_code_urls(fn.all_urls).val IN
       \E ctx \in [DOMAIN code_urls -> {"notfound", "plain", "keyword"}] :
         LET likely == LikelyCodeUrls(code_urls, ctx)
             candidates == IF likely # <<>> THEN likely ELSE code_urls
             asks == Len(candidates) > 1 /\ fn.use_llm
         IN  \E response \in (IF asks THEN SelectResponses(candidates) ELSE {None}) :
                fn' = [op |-> "extract_code_urls_from_pdf", all_urls |-> fn.all_urls,
                       use_llm |-> fn.use_llm, candidates |-> candidates,
                       reply |-> IF asks THEN SelectReplyKind(response) ELSE "none",
                       out |-> extract_code_urls_from_pdf("urls", fn.all_urls, ctx,
                                                          response, fn.use_llm)]
    /\ UNCHANGED pipeline

\* extract_urls_with_llm(url_patterns), step 3 of extract_code_urls_from_pdf
\* with use_llm: all_urls of the input is what the windows hold
ApplyExtractUrls ==
    /\ fn.op = "input" /\ fn.target = "pdf" /\ fn.use_llm
    /\ \E response \in ExtractResponses :
        \E out \in extract_urls_with_llm(fn.all_urls, response) :
            fn' = [op |-> "extract_urls_with_llm", found |-> fn.all_urls,
                   response |-> response, out |-> out]
    /\ UNCHANGED pipeline

\* extract_code_urls_from_pdf(pdf_path, paper_data, use_llm) from step 2 on:
\* all_urls of the input is what the windows hold, in the order of the text
ApplyExtractFromText ==
    /\ fn.op = "input" /\ fn.target = "pdf"
    /\ \E extraction \in (IF fn.use_llm THEN ExtractResponses ELSE {None}) :
       \E all_urls \in (IF fn.use_llm
                        THEN extract_urls_with_llm(fn.all_urls, extraction)
                        ELSE extract_urls_fallback(fn.all_urls)) :
       LET code_urls == filter_code_urls(all_urls).val IN
       \E ctx \in [DOMAIN code_urls -> {"notfound", "plain", "keyword"}] :
         LET likely == LikelyCodeUrls(code_urls, ctx)
             candidates == IF likely # <<>> THEN likely ELSE code_urls
             asks == Len(candidates) > 1 /\ fn.use_llm
         IN  \E response \in (IF asks THEN {None, [selected_url |-> candidates[1]]}
                              ELSE {None}) :
                fn' = [op |-> "extract_code_urls_from_pdf from step 2",
                       found |-> fn.all_urls, use_llm |-> fn.use_llm,
                       fell_back |-> ~fn.use_llm \/ ~HasKey(extraction, "urls"),
                       code_urls |-> code_urls, ctx |-> ctx,
                       out |-> extract_code_urls_from_pdf("urls", all_urls, ctx,
                                                          response, fn.use_llm)]
    /\ UNCHANGED pipeline

\* filter_code_urls(urls)
ApplyFilter ==
    /\ fn.op = "input" /\ fn.target = "pdf"
    /\ fn' = [op |-> "filter_code_urls", urls |-> fn.all_urls,
              out |-> filter_code_urls(fn.all_urls)]
    /\ UNCHANGED pipeline

\* normalize_url(url), and normalize_url of its result
ApplyNormalize ==
    /\ fn.op = "input" /\ fn.target = "url"
    /\ fn' = [op |-> "normalize_url", url |-> fn.url,
              once |-> normalize_url(fn.url),
              twice |-> normalize_url(normalize_url(fn.url))]
    /\ UNCHANGED pipeline

NextFn ==
    \/ ApplyRules
    \/ ApplyValidate
    \/ ApplySelect
    \/ ApplyExtract
    \/ ApplyExtractUrls
    \/ ApplyExtractFromText
    \/ ApplyFilter
    \/ ApplyNormalize

SpecFn == InitFn /\ [][NextFn]_vars

----------------------------------------------------------------------------
(* llm_client.py: LLMClient.call and LLMClient.call_json, one attempt a step *)

\* config.py line 128
LLM_MAX_RETRIES == 3

\* MaxTokens: the longest reply text, in tokens
MaxTokens == 4

RECURSIVE Pow2(_)
Pow2(n) == IF n = 0 THEN 1 ELSE 2 * Pow2(n - 1)

\* a reply text is a sequence of tokens: the fence of three backquotes with
\* and without the word json, a line break, the JSON object
\* {"selected": null}, and text that is no JSON
ContentTokens == {"fence_json", "fence", "\n", "{selected:null}", "junk"}

FencedReply == <<"fence_json", "\n", "{selected:null}", "\n", "fence">>

\* the texts choices[0].message.content can hold
Contents == SeqsUpTo(ContentTokens, MaxTokens) \cup {FencedReply}

\* str.strip()
RECURSIVE LStrip(_)
LStrip(text) == IF text # <<>> /\ Head(text) = "\n" THEN LStrip(Tail(text)) ELSE text

Strip(text) == RStrip(LStrip(text), {"\n"})

\* json.loads: the object, or JSONDecodeError
JsonLoads(text) ==
    IF Strip(text) = <<"{selected:null}">>
    THEN [exc |-> "", val |-> [selected |-> None]]
    ELSE [exc |-> "JSONDecodeError", val |-> None]

\* response[3:] of a text that starts with a fence
CutFence(text) ==
    IF Head(text) = "fence_json" THEN <<"json">> \o Tail(text) ELSE Tail(text)

\* call_json from line 117 on (response is what call returned) without the
\* removal of the closing fence
CallJsonKeepsClosingFence(response) ==
    IF response = None THEN None
    ELSE LET stripped == Strip(response)
             a == IF stripped # <<>> /\ Head(stripped) = "fence_json"
                  THEN Tail(stripped) ELSE stripped
             b == IF a # <<>> /\ Head(a) \in {"fence", "fence_json"} THEN CutFence(a) ELSE a
             parsed == JsonLoads(Strip(b))
         IN  IF parsed.exc # "" THEN None ELSE parsed.val

\* call_json from line 117 on: response is what call returned, None or the
\* text (the empty text is falsy like None)
call_json(response) ==
    IF response = None THEN None
    ELSE LET stripped == Strip(response)
             a == IF stripped # <<>> /\ Head(stripped) = "fence_json"
                  THEN Tail(stripped) ELSE stripped
             b == IF a # <<>> /\ Head(a) \in {"fence", "fence_json"} THEN CutFence(a) ELSE a
             c == IF b # <<>> /\ b[Len(b)] = "fence" THEN SubSeq(b, 1, Len(b) - 1) ELSE b
             parsed == JsonLoads(Strip(c))
         IN  IF parsed.exc # "" THEN None ELSE parsed.val

\* failures requests.post and raise_for_status report as RequestException
TransportFailures == {"connection", "http_status"}

\* a reply received with a body that is malformed: no JSON, no "choices" key,
\* an empty "choices" list
MalformedBodies == {"not_json", "no_choices_key", "empty_choices"}

\* LLMClient.call before its first attempt
CallStart(max_retries) ==
    [op |-> "call", max_retries |-> max_retries, attempt |-> 0, requests |-> 0,
     sleeps |-> <<>>, log |-> <<>>, status |-> "running", ret |-> None,
     json |-> None]

CallRunning ==
    /\ fn.op = "call"
    /\ fn.status = "running"
    /\ fn.attempt < fn.max_retries

\* lines 86-87 and 91-92: the backoff of a failed attempt that is not the last
Backoff(sleeps, attempt, max_retries) ==
    IF attempt < max_retries - 1 THEN Append(sleeps, Pow2(attempt)) ELSE sleeps

\* lines 72-81: the request succeeds and the content is returned
CallReturnsContent ==
    /\ CallRunning
    /\ \E content \in Contents :
        fn' = [fn EXCEPT !.requests = @ + 1, !.log = Append(@, "ok"),
                         !.status = "returned", !.ret = content]
    /\ UNCHANGED pipeline

\* the attempt with a sleep after every failure, the last one included
CallTimeoutAlwaysSleeps ==
    /\ CallRunning
    /\ fn' = [fn EXCEPT !.requests = @ + 1, !.log = Append(@, "timeout"),
                        !.sleeps = Append(@, Pow2(fn.attempt)),
                        !.attempt = @ + 1]
    /\ UNCHANGED pipeline

\* lines 83-87: except requests.exceptions.Timeout
CallTimeout ==
    /\ CallRunning
    /\ fn' = [fn EXCEPT !.requests = @ + 1, !.log = Append(@, "timeout"),
                        !.sleeps = Backoff(@, fn.attempt, fn.max_retries),
                        !.attempt = @ + 1]
    /\ UNCHANGED pipeline

\* lines 89-92: except requests.exceptions.RequestException.  The exception
\* response.json() raises on a body that is no JSON is a RequestException in
\* requests 2.27 and later, and is then handled here.
CallRequestException ==
    /\ CallRunning
    /\ \E failure \in TransportFailures \cup {"not_json"} :
        fn' = [fn EXCEPT !.requests = @ + 1, !.log = Append(@, failure),
                         !.sleeps = Backoff(@, fn.attempt, fn.max_retries),
                         !.attempt = @ + 1]
    /\ UNCHANGED pipeline

\* lines 94-96: except (KeyError, json.JSONDecodeError): None at once.  A body
\* that is no JSON comes here with requests older than 2.27.
CallParseFailure ==
    /\ CallRunning
    /\ \E failure \in {"not_json", "no_choices_key"} :
        fn' = [fn EXCEPT !.requests = @ + 1, !.log = Append(@, failure),
                         !.status = "returned", !.ret = None]
    /\ UNCHANGED pipeline

\* line 80: result["choices"][0] of an empty list raises IndexError, which no
\* except clause names
CallRaises ==
    /\ CallRunning
    /\ fn' = [fn EXCEPT !.requests = @ + 1, !.log = Append(@, "empty_choices"),
                        !.status = "raised"]
    /\ UNCHANGED pipeline

\* lines 98-99: the loop is exhausted
CallExhausted ==
    /\ fn.op = "call"
    /\ fn.status = "running"
    /\ fn.attempt = fn.max_retries
    /\ fn' = [fn EXCEPT !.status = "returned", !.ret = None]
    /\ UNCHANGED pipeline

\* call_json lines 111-138 once call has returned
CallJson ==
    /\ fn.op = "call"
    /\ fn.status = "returned"
    /\ fn' = [fn EXCEPT !.op = "call_json", !.json = call_json(fn.ret)]
    /\ UNCHANGED pipeline

----------------------------------------------------------------------------
(* github_search.py: GitHubSearcher._make_request, one attempt a step *)

\* github_search.py line 58: max_retries: int = 3
HTTP_MAX_RETRIES == 3

Max(a, b) == IF a >= b THEN a ELSE b

\* time.time() when the wait is computed
Now == 1000

\* the Retry-After header of a 403 reply: absent, a number of seconds, or
\* the date form of the header
RetryAfterHeaders ==
    {None, Some("0"), Some("30"), Some("Wed, 21 Oct 2026 07:28:00 GMT")}

\* int(retry_after): the number, or ValueError
ParseInt(text) ==
    CASE text = "0" -> [exc |-> "", val |-> 0]
      [] text = "30" -> [exc |-> "", val |-> 30]
      [] OTHER -> [exc |-> "ValueError", val |-> 0]

\* what check_rate_limit returns: {} when the status request fails, else the
\* "rate" object of the reply
RateAnswers ==
    {<<>>,
     [remaining |-> 0, reset |-> Now + 30],
     [remaining |-> 0, reset |-> Now + 100],
     [remaining |-> 10, reset |-> Now + 100],
     [reset |-> Now + 100],
     [remaining |-> 0]}

\* wait_for_rate_limit: the seconds slept.  retry_after is int(header) or None
wait_for_rate_limit(retry_after, rate_limit, now) ==
    IF retry_after # None /\ retry_after[1] # 0 THEN retry_after[1] + 5
    ELSE LET remaining == Get(rate_limit, "remaining", 0)
             reset_time == Get(rate_limit, "reset", 0)
         IN  IF remaining = 0 /\ reset_time # 0
             THEN Max(reset_time - now + 5, 60)
             ELSE 60

\* _make_request before its first attempt
RequestStart(max_retries) ==
    [op |-> "_make_request", max_retries |-> max_retries, attempt |-> 0,
     requests |-> 0, waits |-> <<>>, log |-> <<>>, status |-> "running",
     ret |-> None]

RequestRunning ==
    /\ fn.op = "_make_request"
    /\ fn.status = "running"
    /\ fn.attempt < fn.max_retries

\* lines 62-82: a reply that is no rate-limited 403 is returned
RequestReturnsResponse ==
    /\ RequestRunning
    /\ \E reply \in {"200", "404", "403_other"} :
        fn' = [fn EXCEPT !.requests = @ + 1, !.log = Append(@, reply),
                         !.status = "returned", !.ret = Some(reply)]
    /\ UNCHANGED pipeline

\* lines 70-78: a 403 whose text says rate limit: wait and retry, or None on
\* the last attempt.  int(retry_after) is evaluated before the wait and its
\* ValueError is caught by no except clause.  rate is what check_rate_limit
\* answered when it was asked.
RequestRateLimited ==
    /\ RequestRunning
    /\ IF fn.attempt < fn.max_retries - 1
       THEN \E header \in RetryAfterHeaders, rate_limit \in RateAnswers :
            LET parsed == IF header = None THEN [exc |-> "", val |-> 0]
                          ELSE ParseInt(header[1])
                retry_after == IF header = None THEN None ELSE Some(parsed.val)
                asked == retry_after = None \/ retry_after[1] = 0
                rate == IF asked THEN rate_limit ELSE <<>>
            IN  IF parsed.exc # ""
                THEN fn' = [fn EXCEPT !.requests = @ + 1,
                                      !.log = Append(@, "403_rate_limit"),
                                      !.status = "raised"]
                ELSE fn' = [fn EXCEPT
                              !.requests = @ + 1,
                              !.log = Append(@, "403_rate_limit"),
                              !.waits = Append(@, [kind |-> "rate_limit",
                                                   header |-> header,
                                                   rate |-> rate, now |-> Now,
                                                   seconds |-> wait_for_rate_limit(retry_after, rate, Now)]),
                              !.attempt = @ + 1]
       ELSE fn' = [fn EXCEPT !.requests = @ + 1,
                             !.log = Append(@, "403_rate_limit"),
                             !.status = "returned", !.ret = None]
    /\ UNCHANGED pipeline

\* lines 84-93: the backoff of a failed attempt that is not the last
RequestBackoff(waits, attempt, max_retries) ==
    IF attempt < max_retries - 1
    THEN Append(waits, [kind |-> "backoff", header |-> None, rate |-> <<>>,
                        now |-> Now, seconds |-> Pow2(attempt)])
    ELSE waits

\* lines 84-88: except requests.exceptions.Timeout
RequestTimeout ==
    /\ RequestRunning
    /\ fn' = [fn EXCEPT !.requests = @ + 1, !.log = Append(@, "timeout"),
                        !.waits = RequestBackoff(@, fn.attempt, fn.max_retries),
                        !.attempt = @ + 1]
    /\ UNCHANGED pipeline

\* lines 89-93: except requests.exceptions.RequestException
RequestException ==
    /\ RequestRunning
    /\ fn' = [fn EXCEPT !.requests = @ + 1, !.log = Append(@, "connection"),
                        !.waits = RequestBackoff(@, fn.attempt, fn.max_retries),
                        !.attempt = @ + 1]
    /\ UNCHANGED pipeline

\* line 95: the loop is exhausted
RequestExhausted ==
    /\ fn.op = "_make_request"
    /\ fn.status = "running"
    /\ fn.attempt = fn.max_retries
    /\ fn' = [fn EXCEPT !.status = "returned", !.ret = None]
    /\ UNCHANGED pipeline

InitClient ==
    /\ Parked
    /\ fn \in {CallStart(m) : m \in 1..LLM_MAX_RETRIES}
              \cup {RequestStart(m) : m \in 1..HTTP_MAX_RETRIES}

NextClient ==
    \/ CallReturnsContent
    \/ CallTimeout
    \/ CallRequestException
    \/ CallParseFailure
    \/ CallRaises
    \/ CallExhausted
    \/ CallJson
    \/ RequestReturnsResponse
    \/ RequestRateLimited
    \/ RequestTimeout
    \/ RequestException
    \/ RequestExhausted

SpecClient == InitClient /\ [][NextClient]_vars

----------------------------------------------------------------------------
(* repo_validator.py: deep_analyze_repo_structure, one call of traverse_dir  *)
(* a step                                                                    *)

\* config.py line 122
MAX_DEPTH == 3

\* config.py line 123
MAX_FILES_TO_ANALYZE == 20

\* MaxSubdirs: the most directories one listing holds
MaxSubdirs == 2

\* the numbers of code files one listing holds
FilesPerListing == {0, 1, 11}

\* n times the depth d
RECURSIVE Repeat(_, _)
Repeat(d, n) == IF n = 0 THEN <<>> ELSE <<d>> \o Repeat(d, n - 1)

\* deep_analyze_repo_structure at traverse_dir("", 0).  stack holds the depths
\* of the calls of traverse_dir still to be made, the next one first;
\* gathered_before is len(all_code_files) when the last listing was requested.
WalkStart(max_depth) ==
    [op |-> "deep_analyze_repo_structure", max_depth |-> max_depth,
     stack |-> <<0>>, code_files |-> 0, directories |-> 0, requests |-> 0,
     deepest |-> 0, gathered_before |-> 0, status |-> "running", ret |-> None]

WalkRunning ==
    /\ fn.op = "deep_analyze_repo_structure"
    /\ fn.status = "running"
    /\ fn.stack # <<>>

\* lines 177-178: traverse_dir returns at once below max_depth
WalkTooDeep ==
    /\ WalkRunning
    /\ Head(fn.stack) > fn.max_depth
    /\ fn' = [fn EXCEPT !.stack = Tail(@)]
    /\ UNCHANGED pipeline

\* lines 180-201: the directory is listed; its code files are appended to
\* all_code_files and traverse_dir is called for each of its directories.
\* A listing that fails or is empty is the one with no file and no directory.
WalkLists ==
    /\ WalkRunning
    /\ Head(fn.stack) <= fn.max_depth
    /\ \E files \in FilesPerListing, dirs \in 0..MaxSubdirs :
        fn' = [fn EXCEPT
                 !.stack = Repeat(Head(fn.stack) + 1, dirs) \o Tail(@),
                 !.code_files = @ + files,
                 !.directories = @ + dirs,
                 !.requests = @ + 1,
                 !.deepest = Max(@, Head(fn.stack)),
                 !.gathered_before = fn.code_files]
    /\ UNCHANGED pipeline

\* lines 204-242: the walk is over and the result is built
WalkEnds ==
    /\ fn.op = "deep_analyze_repo_structure"
    /\ fn.status = "running"
    /\ fn.stack = <<>>
    /\ fn' = [fn EXCEPT
                !.status = "returned",
                !.ret = [total_code_files |-> fn.code_files,
                         total_directories |-> fn.directories,
                         all_code_files |-> Min(fn.code_files, MAX_FILES_TO_ANALYZE)]]
    /\ UNCHANGED pipeline

InitWalk == Parked /\ fn = WalkStart(MAX_DEPTH)

NextWalk ==
    \/ WalkTooDeep
    \/ WalkLists
    \/ WalkEnds

SpecWalk == InitWalk /\ [][NextWalk]_vars

----------------------------------------------------------------------------
(* Properties *)

\* the verdicts rule_based_filter and validate_repository returned
IsVerdict == fn.op \in {"rule_based_filter", "validate_repository"}

Verdict == IF fn.op = "rule_based_filter" THEN fn.out ELSE fn.out.val

\* C1: every verdict that rule_based_filter or validate_repository returns with
\* confident = true has is_meaningful true or false, never None, a Stage 2
\* whose gateway call failed included.
C1_ConfidentVerdictIsDecided ==
    (IsVerdict /\ Verdict # None /\ Get(Verdict, "confident", FALSE))
        => Get(Verdict, "is_meaningful", None) \in {Some(TRUE), Some(FALSE)}

\* C2: whatever the external calls answer, every stage returns a value instead
\* of raising, so that process_single_paper goes on to its save step.
C2_EveryStageReturns ==
    /\ pdf_result.exc = ""
    /\ validation_result.exc = ""
    /\ pc # "raised"

\* the Stage 2 gateway call was issued and gave no usable reply
Stage2GatewayFailed ==
    /\ fn.op = "validate_repository"
    /\ fn.out.exc = ""
    /\ fn.out.issued.llm_eval = 1
    /\ fn.response = None

\* C3: when the Stage 2 gateway call fails outright, the verdict of
\* validate_repository has is_meaningful = None and score = None; it is never
\* is_meaningful = false.
C3_GatewayFailureIsUnknown ==
    Stage2GatewayFailed
        => /\ fn.out.val.is_meaningful = None
           /\ fn.out.val.score = None

C3_Witness ==
    /\ Stage2GatewayFailed
    /\ fn.out.stage1.is_meaningful = Some(TRUE)
    /\ fn.out.val.is_meaningful = None
    /\ fn.out.val.reason = "LLM evaluation failed"

\* C4: process_single_paper keeps unknown apart from not meaningful: a verdict
\* whose is_meaningful is None neither clears selected_repo_url nor records
\* repo_type none_meaningful.
C4_UnknownKeepsSelection ==
    [][(AfterValidate /\ Get(validation_result.val, "is_meaningful", None) = None)
          => /\ code_data'.selected_repo_url = code_data.selected_repo_url
             /\ code_data'.repo_type # "none_meaningful"]_vars

\* C5: an exception that leaves process_single_paper is counted as one error
\* and the loop goes on with the next paper: errors is the number of papers
\* that raised, the loop is past every such paper, and it ends only when no
\* paper is left.
C5_ErrorIsCountedAndLoopContinues ==
    /\ stats.errors = Cardinality({p \in Papers : outcome[p] = "raised"})
    /\ \A p \in Papers : outcome[p] = "raised" => i > p
    /\ pc = "done" => /\ i = NumPapers + 1
                      /\ \A p \in Papers : outcome[p] \notin {"pending", "running"}

C5_Witness ==
    /\ pc = "done"
    /\ outcome[1] = "raised"
    /\ outcome[NumPapers] = "processed"
    /\ stats.errors = 1
    /\ stats.processed >= 1

\* C6: with use_llm enabled and two or more PDF candidates, a gateway call that
\* gives no usable reply leaves the first candidate selected.
C6_GatewayFailureSelectsFirst ==
    (/\ fn.op = "extract_code_urls_from_pdf"
     /\ fn.use_llm
     /\ fn.out.exc = ""
     /\ Len(fn.candidates) >= 2
     /\ fn.reply = "failed")
        => /\ fn.out.val.success
           /\ fn.out.val.official_repo_url = fn.candidates[1]

\* C7: with use_llm disabled and two or more candidates the first one is
\* selected: the first PDF candidate, and the first search result in the order
\* the API gave them, which search_repositories keeps, cut to max_results.
C7_NoLlmSelectsFirst ==
    /\ (pc = "pdf_done" /\ ~args.use_llm /\ Len(pdf_result.ret.candidates) >= 2)
          => /\ pdf_result.ret.success
             /\ pdf_result.ret.official_repo_url = pdf_result.ret.candidates[1]
    /\ (pc = "search_done" /\ ~args.use_llm)
          => LET items == github_result.items
                 found == github_result.found
                 repos == github_result.ret.unofficial_repos
             IN  /\ Len(found) = Min(Len(items), SEARCH_MAX_RESULTS)
                 /\ \A k \in DOMAIN found : found[k] = items[k]
                 /\ Len(repos) = Len(found)
                 /\ \A k \in DOMAIN repos : repos[k] = items[k].html_url
    /\ (/\ code_data # None
        /\ code_data.extraction_source = "github_search"
        /\ code_data.repo_type # "none_meaningful")
          => code_data.selected_repo_url = code_data.unofficial_repo_urls[1]
    /\ (/\ code_data # None
        /\ code_data.extraction_source = "pdf"
        /\ code_data.repo_type # "none_meaningful")
          => code_data.selected_repo_url = code_data.official_repo_url

C7_Witness ==
    /\ pc = "validate"
    /\ ~args.use_llm
    /\ code_data.extraction_source = "github_search"
    /\ code_data.unofficial_repo_urls = <<UB, UA>>
    /\ code_data.selected_repo_url = UB

ReplySelectsNone(response) ==
    /\ HasKey(response, "selected_url")
    /\ \/ response.selected_url = None
       \/ Lower(response.selected_url) = NullString

\* C9: with two or more candidates, a successful reply whose selection is null
\* or "null" makes the disambiguation return None, and the PDF stage reports
\* success = false with official_repo_url = None.
C9_NullSelectionSelectsNothing ==
    /\ (/\ fn.op = "select_official_repo_with_llm"
        /\ Len(fn.candidate_urls) >= 2
        /\ ReplySelectsNone(fn.response))
          => fn.out.val = None /\ fn.out.llm_called
    /\ (/\ fn.op = "extract_code_urls_from_pdf"
        /\ fn.use_llm
        /\ Len(fn.candidates) >= 2
        /\ fn.reply \in {"null", "nullstring"})
          => /\ fn.out.exc = ""
             /\ ~fn.out.val.success
             /\ fn.out.val.official_repo_url = None

C9_Witness ==
    /\ fn.op = "extract_code_urls_from_pdf"
    /\ fn.use_llm
    /\ Len(fn.candidates) = 2
    /\ fn.reply = "nullstring"
    /\ ~fn.out.val.success
    /\ fn.out.llm_select = 1

\* the Stage 1 rules were applied to a repository whose root listing was fetched
RulesApplied ==
    /\ fn.op = "rule_based_filter"
    /\ fn.repo_info # RepoInfoBadUrl
    /\ fn.files # None

CodeFiles == Len(SelectSeq(fn.files[1], IsCodeFile))

Tiny == fn.repo_info.size < MIN_REPO_SIZE_KB /\ CodeFiles <= 1

Abandoned ==
    /\ fn.repo_info.pushed_at # None
    /\ fn.current_year - fn.repo_info.pushed_at[1] > MAX_ABANDONED_YEARS
    /\ fn.repo_info.stars < MIN_STARS_FOR_OLD_REPO

Rejected(reason, score) ==
    /\ fn.out.reason = reason
    /\ fn.out.score = Some(score)
    /\ fn.out.is_meaningful = Some(FALSE)
    /\ fn.out.confident

\* C10: Stage 1 tests no-code, tiny, archived, abandoned in that order and the
\* first that matches decides: a tiny archived repository is rejected as tiny
\* (score 0.1), an archived abandoned one as archived (score 0.2); when none
\* matches the result is is_meaningful = true with confident = false.
C10_RulesInOrder ==
    RulesApplied =>
        /\ CodeFiles = 0 => Rejected("No code files found", 0)
        /\ (CodeFiles > 0 /\ Tiny)
              => Rejected("Very tiny repo with almost no code", 10)
        /\ (CodeFiles > 0 /\ ~Tiny /\ fn.repo_info.archived)
              => Rejected("Repository is archived", 20)
        /\ (CodeFiles > 0 /\ ~Tiny /\ ~fn.repo_info.archived /\ Abandoned)
              => Rejected("Abandoned repo", 20)
        /\ (CodeFiles > 0 /\ ~Tiny /\ ~fn.repo_info.archived /\ ~Abandoned)
              => /\ fn.out.is_meaningful = Some(TRUE)
                 /\ ~fn.out.confident

C10_Witness ==
    /\ RulesApplied
    /\ CodeFiles = 1
    /\ Tiny
    /\ fn.repo_info.archived
    /\ Abandoned
    /\ Rejected("Very tiny repo with almost no code", 10)

\* C11: a repository whose root listing holds no code file gets from Stage 1
\* is_meaningful = false, score = 0.0, confident = true, whatever its stars,
\* size, archived flag and last push.
C11_NoCodeIsRejected ==
    (RulesApplied /\ CodeFiles = 0)
        => /\ fn.out.is_meaningful = Some(FALSE)
           /\ fn.out.score = Some(0)
           /\ fn.out.confident
           /\ fn.out.reason = "No code files found"

C11_Witness ==
    /\ RulesApplied
    /\ fn.files = Some(<<[name |-> "README.md", type |-> "file"],
                         [name |-> "models", type |-> "dir"]>>)
    /\ fn.repo_info = RepoInfo(50, 120, Some(2025), FALSE)
    /\ fn.out.score = Some(0)
    /\ fn.out.confident

\* validate_repository ran Stage 1 on a repository whose root listing was fetched
ValidatedByRules ==
    /\ fn.op = "validate_repository"
    /\ fn.out.stage1 # None
    /\ fn.repo_info # RepoInfoBadUrl
    /\ fn.files # None

\* the calls of Stage 2: deep walk, code sampling, gateway request
Stage2Calls(issued) == issued.deep_walk + issued.sample + issued.llm_eval

\* C12: a repository with a code file, a size under MIN_REPO_SIZE_KB and at
\* most one code file gets from Stage 1 is_meaningful = false, confident = true,
\* score = 0.1, and validate_repository returns that verdict without going to
\* Stage 2.
C12_TinyIsRejectedAtStage1 ==
    /\ (RulesApplied /\ CodeFiles >= 1 /\ Tiny)
          => Rejected("Very tiny repo with almost no code", 10)
    /\ (ValidatedByRules /\ CodeFiles >= 1 /\ Tiny)
          => /\ fn.out.exc = ""
             /\ fn.out.val = fn.out.stage1
             /\ fn.out.val.is_meaningful = Some(FALSE)
             /\ fn.out.val.confident
             /\ fn.out.val.score = Some(10)
             /\ Stage2Calls(fn.out.issued) = 0

C12_Witness ==
    /\ ValidatedByRules
    /\ fn.use_llm
    /\ fn.repo_info = RepoInfo(MIN_REPO_SIZE_KB - 1, 2, Some(2025), FALSE)
    /\ CodeFiles = 1
    /\ fn.out.val.score = Some(10)
    /\ Stage2Calls(fn.out.issued) = 0

\* C13: validate_repository walks the tree, samples code and calls the gateway
\* only when Stage 1 returned confident = false and use_llm is true; otherwise
\* it returns the Stage 1 result unchanged and issues none of those calls.
C13_Stage2OnlyWhenInconclusiveAndLlm ==
    (fn.op = "validate_repository" /\ fn.out.stage1 # None)
        => IF ~fn.out.stage1.confident /\ fn.use_llm
           THEN fn.out.issued.deep_walk = 1
           ELSE /\ fn.out.exc = ""
                /\ fn.out.val = fn.out.stage1
                /\ Stage2Calls(fn.out.issued) = 0

C13_Witness ==
    /\ fn.op = "validate_repository"
    /\ ~fn.use_llm
    /\ fn.out.stage1 # None
    /\ ~fn.out.stage1.confident
    /\ fn.out.stage1.is_meaningful = Some(TRUE)
    /\ fn.out.val = fn.out.stage1
    /\ Stage2Calls(fn.out.issued) = 0

\* C19: normalize_url is idempotent: normalizing a normalized URL changes
\* nothing, whatever slashes, .git suffixes and blanks the URL ends in.
C19_NormalizeIsIdempotent ==
    fn.op = "normalize_url" => fn.twice = fn.once

\* C20: when no direct repository URL survives and some URL looks like a
\* project page, filter_code_urls returns a list of repository URLs (possibly
\* empty) without raising.
C20_ProjectPagesAreScanned ==
    (/\ fn.op = "filter_code_urls"
     /\ SelectSeq(fn.urls, IsDirectRepo) = <<>>
     /\ SelectSeq(fn.urls, IsProjectPage) # <<>>)
        => fn.out.exc = ""

IsCall == fn.op \in {"call", "call_json"}

\* the failures LLMClient.call retries: a timeout and the transport failures
RetriedFailures == {"timeout"} \cup TransportFailures

\* C14: LLMClient.call issues at most max_retries requests; a timeout or a
\* transport failure on attempt k (from 0) that is not the last is followed by
\* a sleep of 2^k seconds; the content of the first successful attempt is
\* returned; after max_retries such failures the call returns None and has
\* slept max_retries - 1 times, never after the last attempt.
C14_CallRetriesWithBackoff ==
    IsCall =>
        /\ fn.requests <= fn.max_retries
        /\ fn.requests = Len(fn.log)
        /\ Len(fn.sleeps) <= fn.max_retries - 1
        /\ \A k \in DOMAIN fn.log :
            /\ fn.log[k] \in RetriedFailures /\ k < fn.max_retries
                => Len(fn.sleeps) >= k /\ fn.sleeps[k] = Pow2(k - 1)
            /\ fn.log[k] = "ok"
                => k = Len(fn.log) /\ fn.status = "returned" /\ fn.ret \in Contents
        /\ ( /\ fn.status = "returned"
             /\ fn.requests = fn.max_retries
             /\ \A k \in DOMAIN fn.log : fn.log[k] \in RetriedFailures )
            => fn.ret = None /\ Len(fn.sleeps) = fn.max_retries - 1

C14_Witness ==
    /\ fn.op = "call"
    /\ fn.max_retries = 3
    /\ fn.log = <<"timeout", "connection", "timeout">>
    /\ fn.status = "returned"
    /\ fn.ret = None
    /\ fn.sleeps = <<1, 2>>

\* C15: a reply received with a malformed body ends LLMClient.call at once:
\* the request that received it is the last one, the call returns None, and
\* no sleep follows it.
C15_MalformedBodyFailsAtOnce ==
    IsCall =>
        \A k \in DOMAIN fn.log :
            fn.log[k] \in MalformedBodies
                => /\ k = Len(fn.log)
                   /\ fn.status = "returned"
                   /\ fn.ret = None
                   /\ Len(fn.sleeps) = k - 1

JsonObject == <<"{selected:null}">>

\* the texts that hold the object alone inside optional fences
FencedObjects ==
    {lead \o pad \o JsonObject \o pad \o trail :
        lead \in {<<>>, <<"fence_json">>, <<"fence">>},
        pad \in {<<>>, <<"\n">>},
        trail \in {<<>>, <<"fence">>}}

\* C16: call_json removes an opening fence (with or without the word json) and
\* a closing fence before parsing, so the fenced reply yields the object whose
\* selected field is None; a text that holds anything that is no JSON yields
\* None, and the only value ever returned is the object the text holds.
C16_FencesAreStripped ==
    fn.op = "call_json" =>
        /\ fn.ret \in FencedObjects => fn.json = [selected |-> None]
        /\ fn.json # None
            => /\ fn.json = [selected |-> None]
               /\ fn.status = "returned"
               /\ \A k \in DOMAIN fn.ret : fn.ret[k] # "junk"
               /\ Cardinality({k \in DOMAIN fn.ret : fn.ret[k] = "{selected:null}"}) = 1

C16_Witness ==
    /\ fn.op = "call_json"
    /\ fn.ret = FencedReply
    /\ fn.json = [selected |-> None]

\* the failures _make_request retries
RequestFailures == {"403_rate_limit", "timeout", "connection"}

\* C17: for every sequence of rate-limited 403 replies, timeouts and transport
\* errors _make_request makes at most max_retries requests, never raises, waits
\* only between attempts (at most max_retries - 1 times, and fewer times than
\* it made requests once it has returned), returns None when its last attempt
\* failed, and its waits after a timeout or transport error are 2^k seconds
\* for attempt k, so they grow.
C17_RequestRetriesAreBounded ==
    fn.op = "_make_request" =>
        /\ fn.requests <= fn.max_retries
        /\ fn.requests = Len(fn.log)
        /\ fn.status \in {"running", "returned"}
        /\ Len(fn.waits) <= fn.max_retries - 1
        /\ fn.status = "returned" => Len(fn.waits) = fn.requests - 1
        /\ fn.status = "running" => Len(fn.waits) = Min(fn.requests, fn.max_retries - 1)
        /\ (fn.status = "returned" /\ fn.log[Len(fn.log)] \in RequestFailures)
            => fn.ret = None
        /\ \A k \in DOMAIN fn.waits :
            fn.waits[k].kind = "backoff"
                => /\ fn.waits[k].seconds = Pow2(k - 1)
                   /\ fn.log[k] \in {"timeout", "connection"}
                   /\ (k > 1 /\ fn.waits[k - 1].kind = "backoff")
                        => fn.waits[k].seconds = 2 * fn.waits[k - 1].seconds

\* C18: the wait before the retry of a rate-limited 403 is Retry-After + 5
\* seconds whenever the reply carries the header, whatever its value, and
\* otherwise max(reset - now + 5, 60) seconds for the reset time the
\* rate-limit endpoint reports, whatever remaining count it reports.
C18_RateLimitWait ==
    fn.op = "_make_request" =>
        \A k \in DOMAIN fn.waits :
            fn.waits[k].kind = "rate_limit"
                => IF fn.waits[k].header # None
                   THEN fn.waits[k].seconds = ParseInt(fn.waits[k].header[1]).val + 5
                   ELSE HasKey(fn.waits[k].rate, "reset")
                        => fn.waits[k].seconds
                             = Max(fn.waits[k].rate.reset - fn.waits[k].now + 5, 60)

FirstFound(found, url) ==
    CHOOSE k \in DOMAIN found :
        /\ normalize_url(found[k]) = url
        /\ \A j \in 1..(k - 1) : normalize_url(found[j]) # url

\* the context of a candidate has a code keyword
HasKeyword(url) ==
    \E k \in DOMAIN fn.code_urls :
        fn.code_urls[k] = url /\ fn.ctx[k] # "notfound"
                              /\ is_likely_code_url(url, fn.ctx[k])

\* C22: in the candidates of extract_code_urls_from_pdf a candidate whose
\* context has a code keyword never follows one whose context has none, and
\* within a group the candidates are in the order in which the text holds
\* their URLs, so the text fixes the order and the first candidate.
C22_CandidatesKeepTextOrder ==
    (fn.op = "extract_code_urls_from_pdf from step 2" /\ fn.fell_back /\ fn.out.exc = "")
        => LET candidates == fn.out.val.candidates IN
           \A a, b \in DOMAIN candidates :
              a < b =>
                /\ ~(HasKeyword(candidates[b]) /\ ~HasKeyword(candidates[a]))
                /\ (HasKeyword(candidates[a]) <=> HasKeyword(candidates[b]))
                     => FirstFound(fn.found, candidates[a])
                          < FirstFound(fn.found, candidates[b])

\* C23: in process_single_paper the search is entered only from the start
\* (PDF stage skipped) or from the returned PDF stage, and exactly when no
\* repository is selected; the assessor is entered only after the PDF stage
\* or the search selected a repository, is given the selected URL, and is not
\* entered again, nor is an earlier stage, once it has run.
C23_StagesInOrder ==
    [][ /\ (pc # "search" /\ pc' = "search")
            => pc \in {"load", "pdf_done"} /\ ~Truthy(code_data'.selected_repo_url)
        /\ (pc = "load" /\ pc' \in {"pdf", "search"})
            => (pc' = "search" <=> args.skip_pdf)
        /\ (pc # "pdf" /\ pc' = "pdf") => pc = "load"
        /\ pc = "pdf_done"
            => /\ pc' = "search" <=> ~pdf_result.ret.success
               /\ pdf_result.ret.success <=> Truthy(code_data'.selected_repo_url)
        /\ (pc # "validate" /\ pc' = "validate")
            => /\ pc \in {"pdf_done", "search_done"}
               /\ Truthy(code_data'.selected_repo_url)
        /\ (pc = "validate" /\ pc' \in {"validated", "raised"})
            => /\ validation_result'.repo_url = code_data.selected_repo_url
               /\ calls'.search = 0
        /\ pc \in {"validated", "save"} => pc' \in {"save", "returned"}
        /\ pc = "search_done" => pc' \in {"validate", "save"}
      ]_vars

\* the PDF stage ran and found nothing, the search selected a repository and
\* the assessor has returned its verdict on it
C23_Witness ==
    /\ pc = "validated"
    /\ ~args.skip_pdf
    /\ code_data.extraction_source = "github_search"
    /\ validation_result.repo_url = code_data.selected_repo_url
    /\ validation_result.repo_url = UA

\* Stage 1 found nothing certain
Inconclusive ==
    /\ fn.out.is_meaningful = Some(TRUE)
    /\ ~fn.out.confident
    /\ fn.out.score = None

\* C24: when no earlier Stage 1 rule fires, the result is is_meaningful =
\* false, confident = true, score = 0.2 (abandoned) exactly when current year
\* minus the year of pushed_at exceeds MAX_ABANDONED_YEARS and stars are below
\* MIN_STARS_FOR_OLD_REPO; with a difference equal to MAX_ABANDONED_YEARS, with
\* stars equal to MIN_STARS_FOR_OLD_REPO or with a pushed_at that does not
\* parse the result is inconclusive.
C24_AbandonedThresholds ==
    (RulesApplied /\ CodeFiles > 0 /\ ~Tiny /\ ~fn.repo_info.archived)
        => LET pushed_at == fn.repo_info.pushed_at
               stars == fn.repo_info.stars
               old == /\ pushed_at # None
                      /\ fn.current_year - pushed_at[1] > MAX_ABANDONED_YEARS
           IN  /\ Rejected("Abandoned repo", 20) <=> (old /\ stars < MIN_STARS_FOR_OLD_REPO)
               /\ ~Rejected("Abandoned repo", 20) => Inconclusive
               /\ pushed_at = None => Inconclusive
               /\ (pushed_at # None
                   /\ fn.current_year - pushed_at[1] = MAX_ABANDONED_YEARS)
                    => Inconclusive
               /\ stars = MIN_STARS_FOR_OLD_REPO => Inconclusive

\* a push exactly MAX_ABANDONED_YEARS years ago with few stars
C24_Witness ==
    /\ RulesApplied /\ CodeFiles > 0 /\ ~Tiny /\ ~fn.repo_info.archived
    /\ fn.repo_info.pushed_at = Some(fn.current_year - MAX_ABANDONED_YEARS)
    /\ fn.repo_info.stars = MIN_STARS_FOR_OLD_REPO - 1
    /\ Inconclusive

\* C25: without use_llm a URL found in the text is among the code URLs of
\* extract_code_urls_from_pdf exactly when is_valid_repo_url accepts it: its
\* host is on the allow-list and its path has two segments or more.
C25_AllowListedUrlsSurvive ==
    (fn.op = "extract_code_urls_from_pdf from step 2" /\ ~fn.use_llm /\ fn.out.exc = "")
        => \A k \in DOMAIN fn.found :
              IsDirectRepo(fn.found[k])
                <=> \E j \in DOMAIN fn.code_urls :
                        fn.code_urls[j] = normalize_url(fn.found[k])

\* C26: whenever the PDF stage reports success, its official_repo_url is one
\* of the entries of the candidates it returns.
C26_SelectionIsACandidate ==
    (fn.op = "extract_code_urls_from_pdf" /\ fn.out.exc = "" /\ fn.out.val.success)
        => \E k \in DOMAIN fn.out.val.candidates :
              fn.out.val.candidates[k] = fn.out.val.official_repo_url

\* C27: deep_analyze_repo_structure lists no directory deeper than MAX_DEPTH
\* below the root, gathers no more than MAX_FILES_TO_ANALYZE code files, and
\* requests no listing once it has gathered that many.
C27_WalkIsBounded ==
    fn.op = "deep_analyze_repo_structure"
        => /\ fn.deepest <= MAX_DEPTH
           /\ fn.code_files <= MAX_FILES_TO_ANALYZE
           /\ fn.requests > 0 => fn.gathered_before < MAX_FILES_TO_ANALYZE

\* C28: the score of every verdict validate_repository returns is None or a
\* number in [0, 1] (0..100 in hundredths), the score taken from the
\* gateway's overall_score included.
C28_ScoreInUnitInterval ==
    (fn.op = "validate_repository" /\ fn.out.exc = "")
        => LET score == Get(fn.out.val, "score", None)
           IN  score = None \/ (score[1] >= 0 /\ score[1] <= 100)

\* process_single_paper has written its record and returned it
Saved ==
    /\ pc = "returned"
    /\ result.success
    /\ result.reason = ""

\* C29: in every record process_single_paper saves, selected_repo_url is set
\* exactly when repo_type is official or unofficial and unset exactly when it
\* is none_found or none_meaningful; an official record has extraction_source
\* pdf and selects official_repo_url; an unofficial record has
\* extraction_source github_search and selects the first of
\* unofficial_repo_urls.
C29_SavedRecordIsConsistent ==
    Saved =>
        LET rec == result.data IN
        /\ rec.repo_type \in {"official", "unofficial", "none_found", "none_meaningful"}
        /\ rec.selected_repo_url # None <=> rec.repo_type \in {"official", "unofficial"}
        /\ rec.selected_repo_url = None
             <=> rec.repo_type \in {"none_found", "none_meaningful"}
        /\ rec.repo_type = "official"
             => /\ rec.extraction_source = "pdf"
                /\ rec.selected_repo_url = rec.official_repo_url
        /\ rec.repo_type = "unofficial"
             => /\ rec.extraction_source = "github_search"
                /\ rec.unofficial_repo_urls # <<>>
                /\ rec.selected_repo_url = rec.unofficial_repo_urls[1]

\* a record of a repository found in the PDF and judged not meaningful
C29_Witness ==
    /\ Saved
    /\ result.data.repo_type = "none_meaningful"
    /\ result.data.selected_repo_url = None
    /\ result.data.official_repo_url = UA
    /\ result.data.quality.is_meaningful = Some(FALSE)

\* C30: with use_llm = false no stage of process_single_paper issues a
\* gateway call: not the URL extraction, not the selection among the PDF's
\* candidates, not the filter of the search results, not Stage 2 of the
\* validation.
C30_NoLlmNoGatewayCall ==
    ~args.use_llm
        => /\ calls.llm_extract = 0
           /\ calls.llm_select = 0
           /\ calls.llm_filter = 0
           /\ calls.llm_eval = 0
           /\ pdf_result.reply = "none"
           /\ github_result.reply = "none"
           /\ validation_result.reply = "none"

\* without use_llm the search has returned repositories, unfiltered
C30_Witness ==
    /\ ~args.use_llm
    /\ pc = "search_done"
    /\ calls.search = 1
    /\ github_result.ret.success
    /\ Len(github_result.ret.unofficial_repos) >= 2
    /\ calls.llm_filter = 0

====
